---- MODULE Spec2Model ----
(***************************************************************************)
(* Model of the LLVM MCP server's request pipeline: InputValidator, the     *)
(* three command builders (CompilationTool, StaticAnalysisTool, ASTTool),   *)
(* BaseClangTool's work environment and process management, and the         *)
(* OutputSanitizer with the parsers the facades apply to the tool's output, *)
(* and DockerManager.executeInContainer.                                    *)
(*                                                                         *)
(* JavaScript strings are TLA+ strings (Len, \o and SubSeq act on them as   *)
(* on character sequences).  An optional field is a sequence: <<>> when     *)
(* the field is undefined, <<v>> when it carries v.  A source text is       *)
(* represented by its type and its length, the only things the validator   *)
(* and the pipeline look at.                                                *)
(***************************************************************************)
EXTENDS Integers, Sequences, FiniteSets, TLC

VARIABLES
    vcall,      \* validator harness: the validator called and its argument
    vret,       \* validator harness: <<>> or <<ValidationResult>>
    pc,         \* position of the request inside compile/analyze/generateAST
    tool,       \* which facade was called
    options,    \* the options object of the request
    workDir,    \* work directory chosen by createWorkEnvironment
    sourceFile, \* source file path chosen by createWorkEnvironment
    dirs,       \* directories that exist on disk
    files,      \* files that exist on disk
    command,    \* argument vector handed to spawn
    proc,       \* state of the child process
    killed,     \* process.killed
    timer,      \* <<>> or <<seconds armed by setTimeout>>
    spawns,     \* number of child processes spawned
    out,        \* stderr text accumulated from the child
    result,     \* <<>> or <<ClangExecutionResult>> (first resolve wins)
    response,   \* <<>> or <<response returned to the caller>>
    reqs        \* concurrent requests: position and work environment of each

vars == <<vcall, vret, pc, tool, options, workDir, sourceFile, dirs, files,
          command, proc, killed, timer, spawns, out, result, response, reqs>>

pipelineVars == <<pc, tool, options, workDir, sourceFile, dirs, files,
                  command, proc, killed, timer, spawns, out, result, response,
                  reqs>>

(***************************************************************************)
(* Bounds of the model.                                                    *)
(***************************************************************************)
MaxListLen == 2      \* longest list handed to a list validator on its own
MaxDeviations == 2   \* request fields that differ from the minimal request
MaxRequests == 2     \* requests in flight together

(***************************************************************************)
(* String primitives of JavaScript used by the code.                       *)
(***************************************************************************)
CharAt(s, i) == SubSeq(s, i, i)

startsWith(s, prefix) ==
    Len(s) >= Len(prefix) /\ SubSeq(s, 1, Len(prefix)) = prefix

includes(s, part) ==
    \E i \in 1..(Len(s) - Len(part) + 1) : SubSeq(s, i, i + Len(part) - 1) = part

substring(s, from) == SubSeq(s, from + 1, Len(s))

RECURSIVE join(_, _)
join(list, sep) ==
    IF Len(list) = 0 THEN ""
    ELSE IF Len(list) = 1 THEN list[1]
    ELSE list[1] \o sep \o join(Tail(list), sep)

Contains(list, v) == \E i \in 1..Len(list) : list[i] = v

\* JavaScript truthiness of an optional string, number or array field.
TruthyStr(f) == f # <<>> /\ f[1] # ""
TruthyNum(f) == f # <<>> /\ f[1] # 0
TruthyArr(f) == f # <<>>

Upper == {"A","B","C","D","E","F","G","H","I","J","K","L","M",
          "N","O","P","Q","R","S","T","U","V","W","X","Y","Z"}
Lower == {"a","b","c","d","e","f","g","h","i","j","k","l","m",
          "n","o","p","q","r","s","t","u","v","w","x","y","z"}
Digit == {"0","1","2","3","4","5","6","7","8","9"}

(***************************************************************************)
(* InputValidator                                                          *)
(***************************************************************************)
MAX_SOURCE_SIZE == 1024 * 1024

ALLOWED_FLAGS ==
    {"-Wall", "-Wextra", "-Wpedantic", "-Werror",
     "-g", "-O0", "-O1", "-O2", "-O3", "-Os", "-Oz", "-Ofast",
     "-std=c89", "-std=c99", "-std=c11", "-std=c17", "-std=c23",
     "-std=c++98", "-std=c++03", "-std=c++11", "-std=c++14",
     "-std=c++17", "-std=c++20", "-std=c++23",
     "-fno-exceptions", "-fno-rtti", "-fPIC", "-march=native",
     "-mtune=native", "-ffast-math", "-fno-strict-aliasing",
     "-pthread", "-fopenmp"}

ALLOWED_FLAG_PREFIXES == <<"-D", "-I", "-L", "-l", "-W", "-f", "-m">>

Ok(v) == [success |-> TRUE, sanitized |-> v]
Fail(msg) == [success |-> FALSE, error |-> msg]

ExceedsMaxSize_ge(length) == length >= MAX_SOURCE_SIZE

\* source.length > this.MAX_SOURCE_SIZE
ExceedsMaxSize(length) == length > MAX_SOURCE_SIZE

validateSourceCode_noEmpty(source) ==
    IF source.typ # "string" THEN Fail("Source code must be a string")
    ELSE IF ExceedsMaxSize(source.length)
         THEN Fail("Source code exceeds maximum size of "
                   \o ToString(MAX_SOURCE_SIZE) \o " bytes")
    ELSE Ok(source)

\* The scan for dangerous patterns only logs; it changes no result.
validateSourceCode(source) ==
    IF source.typ # "string" THEN Fail("Source code must be a string")
    ELSE IF source.length = 0 THEN Fail("Source code cannot be empty")
    ELSE IF ExceedsMaxSize(source.length)
         THEN Fail("Source code exceeds maximum size of "
                   \o ToString(MAX_SOURCE_SIZE) \o " bytes")
    ELSE Ok(source)

validStandards ==
    <<"c89", "c99", "c11", "c17", "c23",
      "c++98", "c++03", "c++11", "c++14", "c++17", "c++20", "c++23">>

validateLanguageStandard(language) ==
    IF ~Contains(validStandards, language)
    THEN Fail("Invalid language standard. Must be one of: "
              \o join(validStandards, ", "))
    ELSE Ok(language)

validOptimizationLevels == <<"O0", "O1", "O2", "O3", "Os", "Oz", "Ofast">>

validateOptimizationLevel(optimization) ==
    IF ~Contains(validOptimizationLevels, optimization)
    THEN Fail("Invalid optimization level. Must be one of: "
              \o join(validOptimizationLevels, ", "))
    ELSE Ok(optimization)

validWarningLevels == <<"none", "all", "extra", "pedantic", "error">>

validateWarningLevel(warnings) ==
    IF ~Contains(validWarningLevels, warnings)
    THEN Fail("Invalid warning level. Must be one of: "
              \o join(validWarningLevels, ", "))
    ELSE Ok(warnings)

\* /^[A-Za-z_][A-Za-z0-9_]*(?:=[A-Za-z0-9_"'.-]*)?$/
DefinePattern(s) ==
    /\ Len(s) >= 1
    /\ CharAt(s, 1) \in Upper \cup Lower \cup {"_"}
    /\ \E k \in 1..Len(s) :
          /\ \A i \in 2..k : CharAt(s, i) \in Upper \cup Lower \cup Digit \cup {"_"}
          /\ \/ k = Len(s)
             \/ /\ CharAt(s, k + 1) = "="
                /\ \A i \in (k + 2)..Len(s) :
                      CharAt(s, i) \in Upper \cup Lower \cup Digit
                                       \cup {"_", "\"", "'", ".", "-"}

RECURSIVE validateDefinesLoop_skipInvalid(_, _, _)
validateDefinesLoop_skipInvalid(defines, i, sanitized) ==
    IF i > Len(defines) THEN Ok(sanitized)
    ELSE IF ~DefinePattern(defines[i])
         THEN validateDefinesLoop_skipInvalid(defines, i + 1, sanitized)
    ELSE validateDefinesLoop_skipInvalid(defines, i + 1,
                                         Append(sanitized, defines[i]))

RECURSIVE validateDefinesLoop(_, _, _)
validateDefinesLoop(defines, i, sanitized) ==
    IF i > Len(defines) THEN Ok(sanitized)
    ELSE IF ~DefinePattern(defines[i])
         THEN Fail("Invalid define format: " \o defines[i]
                   \o ". Must be MACRO or MACRO=value")
    ELSE validateDefinesLoop(defines, i + 1, Append(sanitized, defines[i]))

validateDefines(defines) == validateDefinesLoop(defines, 1, <<>>)

IsTraversal_leadingTilde(include) ==
    includes(include, "..") \/ startsWith(include, "/")

\* include.includes('..') || include.includes('~') || include.startsWith('/')
IsTraversal(include) ==
    includes(include, "..") \/ includes(include, "~") \/ startsWith(include, "/")

\* /^[A-Za-z0-9_/-]+$/
IncludePattern(s) ==
    /\ Len(s) >= 1
    /\ \A i \in 1..Len(s) :
          CharAt(s, i) \in Upper \cup Lower \cup Digit \cup {"_", "/", "-"}

RECURSIVE validateIncludesLoop(_, _, _)
validateIncludesLoop(incs, i, sanitized) ==
    IF i > Len(incs) THEN Ok(sanitized)
    ELSE IF IsTraversal(incs[i])
         THEN Fail("Invalid include path: " \o incs[i]
                   \o ". Relative paths and traversal not allowed")
    ELSE IF ~IncludePattern(incs[i])
         THEN Fail("Invalid include path format: " \o incs[i])
    ELSE validateIncludesLoop(incs, i + 1, Append(sanitized, incs[i]))

validateIncludes(incs) == validateIncludesLoop(incs, 1, <<>>)

hasAllowedPrefix_any(flag) == startsWith(flag, "-")

\* this.ALLOWED_FLAG_PREFIXES.some(prefix => flag.startsWith(prefix))
hasAllowedPrefix(flag) ==
    \E p \in 1..Len(ALLOWED_FLAG_PREFIXES) :
        startsWith(flag, ALLOWED_FLAG_PREFIXES[p])

\* The body of the hasAllowedPrefix branch: "" when the flag passes the
\* additional validation, the error message otherwise.
PrefixedFlagError(flag) ==
    IF startsWith(flag, "-D")
    THEN IF ~validateDefines(<<substring(flag, 2)>>).success
         THEN "Invalid define flag: " \o flag
         ELSE ""
    ELSE IF startsWith(flag, "-I")
    THEN IF substring(flag, 2) # ""
            /\ ~validateIncludes(<<substring(flag, 2)>>).success
         THEN "Invalid include flag: " \o flag
         ELSE ""
    ELSE ""

RECURSIVE validateCompilerFlagsLoop(_, _, _)
validateCompilerFlagsLoop(flags, i, sanitized) ==
    IF i > Len(flags) THEN Ok(sanitized)
    ELSE IF flags[i] \in ALLOWED_FLAGS
         THEN validateCompilerFlagsLoop(flags, i + 1, Append(sanitized, flags[i]))
    ELSE IF hasAllowedPrefix(flags[i])
         THEN IF PrefixedFlagError(flags[i]) # ""
              THEN Fail(PrefixedFlagError(flags[i]))
              ELSE validateCompilerFlagsLoop(flags, i + 1,
                                             Append(sanitized, flags[i]))
    ELSE Fail("Disallowed compiler flag: " \o flags[i])

validateCompilerFlags(flags) == validateCompilerFlagsLoop(flags, 1, <<>>)

\* typeof timeout is 'number' for every timeout of the model.
validateTimeout(timeout) ==
    IF timeout < 1 \/ timeout > 60
    THEN Fail("Timeout must be between 1 and 60 seconds")
    ELSE Ok(timeout)

validCheckers ==
    <<"core.CallAndMessage", "core.DivideZero", "core.NonNullParamChecker",
      "core.NullDereference", "core.StackAddressEscape",
      "core.UndefinedBinaryOperatorResult", "core.VLASize",
      "core.uninitialized.ArraySubscript", "core.uninitialized.Assign",
      "core.uninitialized.Branch", "core.uninitialized.CapturedBlockVariable",
      "core.uninitialized.UndefReturn", "deadcode.DeadStores",
      "security.insecureAPI.UncheckedReturn", "security.insecureAPI.getpw",
      "security.insecureAPI.gets", "security.insecureAPI.mkstemp",
      "security.insecureAPI.mktemp", "security.insecureAPI.rand",
      "security.insecureAPI.strcpy", "unix.API", "unix.Malloc",
      "unix.MallocSizeof", "unix.MismatchedDeallocator",
      "unix.cstring.BadSizeArg", "unix.cstring.NullArg">>

validateCheckersLoop_acceptAll(checkers, i, sanitized) == Ok(checkers)

RECURSIVE validateCheckersLoop(_, _, _)
validateCheckersLoop(checkers, i, sanitized) ==
    IF i > Len(checkers) THEN Ok(sanitized)
    ELSE IF ~Contains(validCheckers, checkers[i])
         THEN Fail("Invalid checker: " \o checkers[i] \o ". Must be one of: "
                   \o join(validCheckers, ", "))
    ELSE validateCheckersLoop(checkers, i + 1, Append(sanitized, checkers[i]))

validateCheckers(checkers) == validateCheckersLoop(checkers, 1, <<>>)

(***************************************************************************)
(* validateInputs of the three facades: the validators run in a fixed       *)
(* order, each only when its field is truthy, and the first failure is      *)
(* returned.                                                               *)
(***************************************************************************)
Passed == [success |-> TRUE]

firstFailure(checks) ==
    IF \A i \in 1..Len(checks) : checks[i].success THEN Passed
    ELSE checks[CHOOSE i \in 1..Len(checks) :
                    /\ ~checks[i].success
                    /\ \A j \in 1..(i - 1) : checks[j].success]

\* if (options.timeout)
timeoutIsChecked(o) == TruthyNum(o.timeout)

CompilationTool_validateInputs(o) ==
    firstFailure(<<
        validateSourceCode(o.sourceCode),
        IF TruthyStr(o.language)
            THEN validateLanguageStandard(o.language[1]) ELSE Passed,
        IF TruthyStr(o.optimization)
            THEN validateOptimizationLevel(o.optimization[1]) ELSE Passed,
        IF TruthyStr(o.warnings)
            THEN validateWarningLevel(o.warnings[1]) ELSE Passed,
        IF TruthyArr(o.defines) THEN validateDefines(o.defines[1]) ELSE Passed,
        IF TruthyArr(o.includes) THEN validateIncludes(o.includes[1]) ELSE Passed,
        IF TruthyArr(o.flags) THEN validateCompilerFlags(o.flags[1]) ELSE Passed,
        IF timeoutIsChecked(o) THEN validateTimeout(o.timeout[1]) ELSE Passed >>)

StaticAnalysisTool_validateInputs(o) ==
    firstFailure(<<
        validateSourceCode(o.sourceCode),
        IF TruthyStr(o.language)
            THEN validateLanguageStandard(o.language[1]) ELSE Passed,
        IF TruthyArr(o.checkers) THEN validateCheckers(o.checkers[1]) ELSE Passed,
        IF TruthyArr(o.defines) THEN validateDefines(o.defines[1]) ELSE Passed,
        IF TruthyArr(o.includes) THEN validateIncludes(o.includes[1]) ELSE Passed >>)

validFormats == <<"json", "dump", "graphviz">>

ASTTool_validateInputs(o) ==
    firstFailure(<<
        validateSourceCode(o.sourceCode),
        IF TruthyStr(o.language)
            THEN validateLanguageStandard(o.language[1]) ELSE Passed,
        IF TruthyStr(o.format) /\ ~Contains(validFormats, o.format[1])
            THEN Fail("Invalid AST format. Must be one of: "
                      \o join(validFormats, ", "))
            ELSE Passed >>)

validateInputs(t, o) ==
    CASE t = "compile" -> CompilationTool_validateInputs(o)
      [] t = "analyze" -> StaticAnalysisTool_validateInputs(o)
      [] t = "ast"     -> ASTTool_validateInputs(o)

(***************************************************************************)
(* Command builders                                                        *)
(***************************************************************************)
path_join(dir, name) == dir \o "/" \o name

\* [f(list[1]), ..., f(list[n])] for the -D and -I loops
Prefixed(prefix, list) == [i \in 1..Len(list) |-> prefix \o list[i]]

warningFlags(warnings) ==
    IF TruthyStr(warnings)
    THEN CASE warnings[1] = "none"     -> <<"-w">>
           [] warnings[1] = "all"      -> <<"-Wall">>
           [] warnings[1] = "extra"    -> <<"-Wall", "-Wextra">>
           [] warnings[1] = "pedantic" -> <<"-Wall", "-Wextra", "-Wpedantic">>
           [] warnings[1] = "error"    -> <<"-Wall", "-Wextra", "-Werror">>
           [] OTHER                    -> <<>>
    ELSE <<"-Wall", "-Wextra", "-Wpedantic">>

outputFile_fromFlags(o, dir) ==
    IF TruthyArr(o.flags) /\ Len(o.flags[1]) > 0
    THEN o.flags[1][1]
    ELSE path_join(dir, IF o.compileOnly THEN "main.o" ELSE "main")

\* path.join(workDir, options.compileOnly ? 'main.o' : 'main')
outputFile(o, dir) == path_join(dir, IF o.compileOnly THEN "main.o" ELSE "main")

buildCompilerCommand_flagsLast(o, src, dir) ==
    <<"clang++">>
    \o (IF TruthyStr(o.language) THEN <<"-std=" \o o.language[1]>> ELSE <<>>)
    \o (IF TruthyStr(o.optimization)
        THEN <<"-" \o o.optimization[1]>> ELSE <<"-O2">>)
    \o <<"-march=native">>
    \o warningFlags(o.warnings)
    \o (IF TruthyArr(o.defines) THEN Prefixed("-D", o.defines[1]) ELSE <<>>)
    \o (IF TruthyArr(o.includes) THEN Prefixed("-I", o.includes[1]) ELSE <<>>)
    \o (IF o.compileOnly THEN <<"-c">> ELSE <<>>)
    \o <<"-o", outputFile(o, dir)>>
    \o <<src>>
    \o (IF TruthyArr(o.flags) THEN o.flags[1] ELSE <<>>)

buildCompilerCommand(o, src, dir) ==
    <<"clang++">>
    \o (IF TruthyStr(o.language) THEN <<"-std=" \o o.language[1]>> ELSE <<>>)
    \o (IF TruthyStr(o.optimization)
        THEN <<"-" \o o.optimization[1]>> ELSE <<"-O2">>)
    \o <<"-march=native">>
    \o warningFlags(o.warnings)
    \o (IF TruthyArr(o.defines) THEN Prefixed("-D", o.defines[1]) ELSE <<>>)
    \o (IF TruthyArr(o.includes) THEN Prefixed("-I", o.includes[1]) ELSE <<>>)
    \o (IF TruthyArr(o.flags) THEN o.flags[1] ELSE <<>>)
    \o (IF o.compileOnly THEN <<"-c">> ELSE <<>>)
    \o <<"-o", outputFile(o, dir)>>
    \o <<src>>

\* -x <family> -std=<language>, C++17 when no language is given
languageFlags(language) ==
    IF TruthyStr(language)
    THEN IF startsWith(language[1], "c++")
         THEN <<"-x", "c++", "-std=" \o language[1]>>
         ELSE <<"-x", "c", "-std=" \o language[1]>>
    ELSE <<"-x", "c++", "-std=c++17">>

defaultCheckers ==
    <<"core.CallAndMessage", "core.DivideZero", "core.NonNullParamChecker",
      "core.NullDereference", "core.UndefinedBinaryOperatorResult",
      "deadcode.DeadStores", "security.insecureAPI.UncheckedReturn",
      "unix.API", "unix.Malloc">>

RECURSIVE checkerFlags(_)
checkerFlags(checkers) ==
    IF Len(checkers) = 0 THEN <<>>
    ELSE <<"-Xanalyzer", "-analyzer-checker=" \o checkers[1]>>
         \o checkerFlags(Tail(checkers))

buildAnalyzerCommand(o, src, dir) ==
    <<"clang", "--analyze">>
    \o languageFlags(o.language)
    \o (IF TruthyArr(o.checkers) /\ Len(o.checkers[1]) > 0
        THEN checkerFlags(o.checkers[1]) ELSE checkerFlags(defaultCheckers))
    \o <<"-Xanalyzer", "-analyzer-output=text">>
    \o (IF TruthyArr(o.defines) THEN Prefixed("-D", o.defines[1]) ELSE <<>>)
    \o (IF TruthyArr(o.includes) THEN Prefixed("-I", o.includes[1]) ELSE <<>>)
    \o <<"-w">>
    \o <<src>>

astFormatFlags(format) ==
    CASE format = "json"     -> <<"-Xclang", "-ast-dump=json", "-fsyntax-only">>
      [] format = "dump"     -> <<"-Xclang", "-ast-dump", "-fsyntax-only">>
      [] format = "graphviz" -> <<"-Xclang", "-ast-view", "-fsyntax-only">>
      [] OTHER               -> <<"-Xclang", "-ast-dump", "-fsyntax-only">>

buildASTCommand(o, src, dir) ==
    <<"clang">>
    \o languageFlags(o.language)
    \o astFormatFlags(IF TruthyStr(o.format) THEN o.format[1] ELSE "dump")
    \o <<"-w">>
    \o <<src>>

buildCommand(t, o, src, dir) ==
    CASE t = "compile" -> buildCompilerCommand(o, src, dir)
      [] t = "analyze" -> buildAnalyzerCommand(o, src, dir)
      [] t = "ast"     -> buildASTCommand(o, src, dir)

(***************************************************************************)
(* BaseClangTool                                                           *)
(***************************************************************************)
\* determineTempDir() on a platform other than win32, MCP_TEMP_DIR unset
tempDir == "/tmp/mcp-compilation"

\* values randomUUID() can return
UUIDs == {"1b4e28ba", "6fa459ea", "9c5b94b1"}

getFileExtension(language) ==
    IF startsWith(language, "c++") \/ language = "cpp" THEN "cpp" ELSE "c"

\* options.language || 'c++17'
languageOrDefault(o) == IF TruthyStr(o.language) THEN o.language[1] ELSE "c++17"

\* the timeout each facade passes to executeClang, in seconds
armedTimeout(t, o) ==
    CASE t = "compile" -> IF TruthyNum(o.timeout) THEN o.timeout[1] ELSE 30
      [] t = "analyze" -> 60
      [] t = "ast"     -> 30

timeoutMessage(t) ==
    CASE t = "compile" -> "Compilation timed out"
      [] t = "analyze" -> "Static analysis timed out"
      [] t = "ast"     -> "AST generation timed out"

errorCode(t) ==
    CASE t = "compile" -> "COMPILATION_ERROR"
      [] t = "analyze" -> "ANALYSIS_ERROR"
      [] t = "ast"     -> "AST_ERROR"

Whitespace == {" ", "\n", "\t", "\r"}

RECURSIVE trimStart(_)
trimStart(s) ==
    IF Len(s) > 0 /\ CharAt(s, 1) \in Whitespace THEN trimStart(Tail(s)) ELSE s

RECURSIVE trimEnd(_)
trimEnd(s) ==
    IF Len(s) > 0 /\ CharAt(s, Len(s)) \in Whitespace
    THEN trimEnd(SubSeq(s, 1, Len(s) - 1)) ELSE s

trim(s) == trimEnd(trimStart(s))

timeoutResult_exitOne(o, t) ==
    [success |-> FALSE, exitCode |-> 1, stdout |-> o.stdout,
     stderr |-> o.stderr \o "\n" \o timeoutMessage(t)]

\* result resolved by the setTimeout callback of executeClang
timeoutResult(o, t) ==
    [success |-> FALSE, exitCode |-> -1, stdout |-> o.stdout,
     stderr |-> o.stderr \o "\n" \o timeoutMessage(t)]

\* result resolved by the 'close' handler; code is <<>> for null
closeResult(o, code) ==
    [success |-> (code = <<0>>),
     exitCode |-> IF code # <<>> /\ code[1] # 0 THEN code[1] ELSE 0,
     stdout |-> o.stdout, stderr |-> o.stderr]

\* result resolved by the 'error' handler
errorResult(o, message) ==
    [success |-> FALSE, exitCode |-> -1, stdout |-> o.stdout,
     stderr |-> o.stderr \o "\nProcess error: " \o message]

\* response of the catch block of a facade
errorResponse(t, message) ==
    [kind |-> "ErrorResponse", success |-> FALSE, code |-> errorCode(t),
     message |-> message, hasExecutionTime |-> TRUE]

\* response of a facade whose validateInputs failed
validationErrorResponse(message) ==
    [kind |-> "ErrorResponse", success |-> FALSE, code |-> "VALIDATION_ERROR",
     message |-> message, hasExecutionTime |-> FALSE]

\* response a facade builds from the ClangExecutionResult it awaited
successResponse(t, r) ==
    CASE t = "compile" ->
            [kind |-> "CompilationResponse", success |-> r.success,
             exitCode |-> r.exitCode]
      [] t = "analyze" ->
            [kind |-> "StaticAnalysisResponse", success |-> TRUE]
      [] t = "ast" ->
            [kind |-> "ASTResponse",
             success |-> trim(IF r.success THEN r.stdout ELSE r.stderr) # ""]

(***************************************************************************)
(* Regular expressions of JavaScript.  A pattern is a sequence of items.    *)
(* Steps gives the ways one item can be matched at a position, ranked in    *)
(* the order the JavaScript engine tries them (a greedy repetition longest  *)
(* first, a lazy one shortest first, alternatives left to right); the match *)
(* JavaScript finds takes, item after item, the first way after which the   *)
(* rest of the pattern can still be matched.  A capture is <<>> while        *)
(* undefined and <<from, to>> once its group has closed.                    *)
(***************************************************************************)
Lit(t) == [k |-> "lit", t |-> t]
Rep(cls, lo, hi, greedy) ==
    [k |-> "rep", cls |-> cls, lo |-> lo, hi |-> hi, greedy |-> greedy]
One(cls) == Rep(cls, 1, 1, TRUE)
Star(cls) == Rep(cls, 0, -1, TRUE)
Plus(cls) == Rep(cls, 1, -1, TRUE)
GroupOpen(n) == [k |-> "open", n |-> n]
GroupClose(n) == [k |-> "close", n |-> n]
Alt(alts) == [k |-> "alt", alts |-> alts]
Bol == [k |-> "bol"]
Eol == [k |-> "eol"]
Ahead(cls) == [k |-> "ahead", cls |-> cls]

\* a character class, or the complement of one
Of(chars) == [neg |-> FALSE, chars |-> chars]
Not(chars) == [neg |-> TRUE, chars |-> chars]
InClass(c, cls) == (c \in cls.chars) # cls.neg

NoMatch == [ok |-> FALSE]

\* the longest repetition possible at position i of s under the limit hi
\* (-1: no limit)
maxRun(s, i, hi) ==
    IF hi = -1 \/ i + hi - 1 > Len(s) THEN Len(s) - i + 1 ELSE hi

\* number of characters of cls from position i on, at most max
runWithin(s, i, cls, max) ==
    CHOOSE n \in 0..max :
        /\ n = max \/ ~InClass(CharAt(s, i + n), cls)
        /\ \A j \in 0..(n - 1) : InClass(CharAt(s, i + j), cls)

runLength(s, i, cls, hi) == runWithin(s, i, cls, maxRun(s, i, hi))

\* one way of matching an item: the position after it, the alternative taken
\* (0 when the item has none) and the rank of the way among the item's ways
Step(pos, alt, rank) == [pos |-> pos, alt |-> alt, rank |-> rank]

\* the repetitions of lo..n characters, longest first when greedy
repSteps(it, i, n) ==
    {Step(i + k, 0, IF it.greedy THEN n - k ELSE k) : k \in it.lo..n}

Steps(it, s, i) ==
    CASE it.k = "lit" ->
            IF i + Len(it.t) - 1 <= Len(s)
               /\ SubSeq(s, i, i + Len(it.t) - 1) = it.t
            THEN {Step(i + Len(it.t), 0, 0)} ELSE {}
      [] it.k = "rep" -> repSteps(it, i, runLength(s, i, it.cls, it.hi))
      [] it.k = "alt" -> {Step(i, j, j) : j \in 1..Len(it.alts)}
      [] it.k = "bol" -> IF i = 1 THEN {Step(i, 0, 0)} ELSE {}
      [] it.k = "eol" -> IF i = Len(s) + 1 THEN {Step(i, 0, 0)} ELSE {}
      [] it.k = "ahead" ->
            IF i <= Len(s) /\ InClass(CharAt(s, i), it.cls)
            THEN {Step(i, 0, 0)} ELSE {}
      [] OTHER -> {Step(i, 0, 0)}

\* the items left to match after the first one was matched by way st
Continue(items, st) ==
    (IF st.alt = 0 THEN <<>> ELSE Head(items).alts[st.alt]) \o Tail(items)

\* the pattern can be matched from position i of s
RECURSIVE Matches(_, _, _)
Matches(items, s, i) ==
    IF Len(items) = 0 THEN TRUE
    ELSE \E st \in Steps(Head(items), s, i) :
            Matches(Continue(items, st), s, st.pos)

\* the captures once item it is passed at position i
Capturing(it, i, caps) ==
    CASE it.k = "open"  -> [caps EXCEPT ![it.n] = <<i>>]
      [] it.k = "close" -> [caps EXCEPT ![it.n] = <<caps[it.n][1], i - 1>>]
      [] OTHER          -> caps

\* the ways of matching the first item after which the rest can be matched
viable(items, s, i) ==
    {st \in Steps(Head(items), s, i) : Matches(Continue(items, st), s, st.pos)}

\* the way the engine tries first
preferred(steps) == CHOOSE a \in steps : \A b \in steps : a.rank <= b.rank

\* the match of a pattern that can be matched from position i of s
RECURSIVE Match(_, _, _, _)
RECURSIVE advance(_, _, _, _, _)
Match(items, s, i, caps) ==
    IF Len(items) = 0 THEN [ok |-> TRUE, end |-> i, caps |-> caps]
    ELSE advance(items, s, i, caps, preferred(viable(items, s, i)))

advance(items, s, i, caps, st) ==
    Match(Continue(items, st), s, st.pos, Capturing(Head(items), i, caps))

\* regex.exec at position i of s, for a pattern with groups capture groups
exec(items, groups, s, i) ==
    IF Matches(items, s, i) THEN Match(items, s, i, [n \in 1..groups |-> <<>>])
    ELSE NoMatch

\* the text of capture n of a match: <<>> (undefined) or <<text>>
Captured(s, r, n) ==
    IF Len(r.caps[n]) < 2 THEN <<>>
    ELSE <<SubSeq(s, r.caps[n][1], r.caps[n][2])>>

\* text.replace(sub, ''): the first occurrence of sub removed
RECURSIVE removeFirst(_, _, _)
removeFirst(text, sub, i) ==
    IF i + Len(sub) - 1 > Len(text) THEN text
    ELSE IF SubSeq(text, i, i + Len(sub) - 1) = sub
         THEN SubSeq(text, 1, i - 1) \o SubSeq(text, i + Len(sub), Len(text))
    ELSE removeFirst(text, sub, i + 1)

\* The callback of the pathPatterns loop, (match, filename, ext, suffix).
\* JavaScript calls it with (match, p1, ..., pn, offset, string): for a
\* pattern with one group ext is the offset of the match and suffix is the
\* whole text searched; for a pattern with three groups they are p2 and p3.
pathReplacer(match, caps, offset, string) ==
    IF Len(caps) = 1
    THEN IF string # ""
         THEN caps[1][1] \o ToString(offset) \o string
         ELSE caps[1][1]
    ELSE IF caps[3] # <<>> /\ caps[3][1] # ""
         THEN caps[1][1] \o caps[2][1] \o caps[3][1]
         ELSE caps[1][1]

\* The callback of sanitizeFilePaths: match.replace(pathPart || '', '')
fileReplacer(match, caps) ==
    IF caps[1] = <<>> \/ caps[1][1] = "" THEN match
    ELSE removeFirst(match, caps[1][1], 1)

\* the second argument of String.prototype.replace: a string or a callback
replacement(by, match, caps, offset, string) ==
    CASE by = "pathReplacer" -> pathReplacer(match, caps, offset, string)
      [] by = "fileReplacer" -> fileReplacer(match, caps)
      [] OTHER               -> by

\* the positions from i on where the pattern can be matched
matchStarts(items, s, i) == {j \in i..(Len(s) + 1) : Matches(items, s, j)}

leftmost(positions) == CHOOSE a \in positions : \A b \in positions : a <= b

\* s.replace(/items/g, by) from position i on: the text up to the next
\* match is kept, the match is replaced, and the search goes on after it
RECURSIVE replaceFrom(_, _, _, _, _)
RECURSIVE replaceNext(_, _, _, _, _, _)
RECURSIVE replaceMatch(_, _, _, _, _, _, _)
replaceFrom(items, groups, by, s, i) ==
    replaceNext(items, groups, by, s, i, matchStarts(items, s, i))

replaceNext(items, groups, by, s, i, starts) ==
    IF starts = {} THEN SubSeq(s, i, Len(s))
    ELSE replaceMatch(items, groups, by, s, i, leftmost(starts),
                      exec(items, groups, s, leftmost(starts)))

replaceMatch(items, groups, by, s, i, j, r) ==
    SubSeq(s, i, j - 1)
    \o replacement(by, SubSeq(s, j, r.end - 1),
                   [n \in 1..groups |-> Captured(s, r, n)], j - 1, s)
    \o replaceFrom(items, groups, by, s, r.end)

\* s.replace(/items/g, by), for the text s an earlier statement has computed
replaceAll(s, items, groups, by) ==
    CHOOSE replaced \in {replaceFrom(items, groups, by, text, 1) : text \in {s}} :
        TRUE

(***************************************************************************)
(* OutputSanitizer                                                         *)
(***************************************************************************)
MAX_OUTPUT_SIZE == 10 * 1024 * 1024

PathChars == Of(Upper \cup Lower \cup Digit \cup {"_", ".", "/", "-"})
WinPathChars == Of(Upper \cup Lower \cup Digit \cup {"_", ".", "\\", "-"})
NameChars == Of(Upper \cup Lower \cup Digit \cup {"_", "-"})
FileChars == Of(Upper \cup Lower \cup Digit \cup {"_", ".", "-"})
Digits == Of(Digit)
HexDigits == Of(Digit \cup {"a", "b", "c", "d", "e", "f",
                            "A", "B", "C", "D", "E", "F"})
Space == {" ", "\t", "\n", "\r", "\f"}
AnyChar == Not({"\n", "\r"})
NotNewline == Not({"\n"})

\* (cpp|c|h|hpp|cc|cxx)
SourceExtension ==
    Alt(<< <<Lit("cpp")>>, <<Lit("c")>>, <<Lit("h")>>, <<Lit("hpp")>>,
           <<Lit("cc")>>, <<Lit("cxx")>> >>)

\* the five pathPatterns of sanitizeCompilerOutput with their group counts
pathPatterns ==
    << [groups |-> 1,
        items |-> <<Lit("/"), Plus(PathChars), Lit("/workspace/"),
                    GroupOpen(1), Plus(PathChars), GroupClose(1)>>],
       [groups |-> 1,
        items |-> <<Lit("/tmp/"), Plus(PathChars), Lit("/"),
                    GroupOpen(1), Plus(PathChars), GroupClose(1)>>],
       [groups |-> 3,
        items |-> <<Lit("/"), Star(PathChars), Lit("/"),
                    GroupOpen(1), Star(PathChars), Lit("."),
                    GroupOpen(2), SourceExtension, GroupClose(2), GroupClose(1),
                    GroupOpen(3), One(Of(Space \cup {":"})), GroupClose(3)>>],
       [groups |-> 1,
        items |-> <<One(Of(Upper)), Lit(":\\"), Plus(WinPathChars),
                    Lit("\\workspace\\"),
                    GroupOpen(1), Plus(WinPathChars), GroupClose(1)>>],
       [groups |-> 3,
        items |-> <<One(Of(Upper)), Lit(":\\"), Plus(WinPathChars), Lit("\\"),
                    GroupOpen(1), Star(WinPathChars), Lit("."),
                    GroupOpen(2), SourceExtension, GroupClose(2), GroupClose(1),
                    GroupOpen(3), One(Of(Space \cup {":"})), GroupClose(3)>>] >>

\* pathPatterns.forEach(pattern => sanitized = sanitized.replace(...))
RECURSIVE replacePaths(_, _)
replacePaths(s, k) ==
    IF k > Len(pathPatterns) THEN s
    ELSE replacePaths(replaceAll(s, pathPatterns[k].items,
                                 pathPatterns[k].groups, "pathReplacer"),
                      k + 1)

\* the replace calls with a constant replacement, in the order of the code
compilerOutputRules ==
    << [items |-> <<Lit("/workspace/")>>, by |-> "./"],
       [items |-> <<Lit("/tmp/"), Plus(NameChars), Lit("/")>>, by |-> "./"],
       [items |-> <<Lit("User ID: "), Plus(Digits)>>, by |-> ""],
       [items |-> <<Lit("Group ID: "), Plus(Digits)>>, by |-> ""],
       [items |-> <<Lit("/usr/lib/"), Plus(PathChars)>>, by |-> "<system_lib>"],
       [items |-> <<Lit("/lib/"), Plus(PathChars)>>, by |-> "<system_lib>"],
       [items |-> <<Rep(Of({"\n"}), 3, -1, TRUE)>>, by |-> "\n\n"] >>

\* /container [a-f0-9]{12,}/gi and the three that follow it
errorMessageRules ==
    << [items |-> <<One(Of({"c", "C"})), One(Of({"o", "O"})), One(Of({"n", "N"})),
                    One(Of({"t", "T"})), One(Of({"a", "A"})), One(Of({"i", "I"})),
                    One(Of({"n", "N"})), One(Of({"e", "E"})), One(Of({"r", "R"})),
                    Lit(" "), Rep(HexDigits, 12, -1, TRUE)>>,
        by |-> "container <id>"],
       [items |-> <<Lit("PID: "), Plus(Digits)>>, by |-> "PID: <id>"],
       [items |-> <<Lit("process "), Plus(Digits)>>, by |-> "process <id>"],
       [items |-> <<Rep(Digits, 4, 4, TRUE), Lit("-"), Rep(Digits, 2, 2, TRUE),
                    Lit("-"), Rep(Digits, 2, 2, TRUE), Lit(" "),
                    Rep(Digits, 2, 2, TRUE), Lit(":"), Rep(Digits, 2, 2, TRUE),
                    Lit(":"), Rep(Digits, 2, 2, TRUE)>>,
        by |-> "<timestamp>"] >>

systemInfoRules ==
    << [items |-> <<Lit("clang version "), Plus(Digits), Lit("."), Plus(Digits),
                    Lit("."), Plus(Digits), Star(NotNewline)>>,
        by |-> "clang version <version>"],
       [items |-> <<Lit("gcc version "), Plus(Digits), Lit("."), Plus(Digits),
                    Lit("."), Plus(Digits), Star(NotNewline)>>,
        by |-> "gcc version <version>"],
       [items |-> <<Lit("Target: "), Plus(FileChars)>>, by |-> "Target: <target>"],
       [items |-> <<Lit("InstalledDir: "), Plus(NotNewline)>>,
        by |-> "InstalledDir: <path>"],
       [items |-> <<Lit("Thread model: "), Plus(NotNewline)>>,
        by |-> "Thread model: <model>"] >>

astRules ==
    << [items |-> <<Lit("0x"), Plus(HexDigits)>>, by |-> "<address>"],
       [items |-> <<Lit("line:"), Plus(Digits), Lit(" col:"), Plus(Digits)>>,
        by |-> "line:<line> col:<col>"] >>

\* the replace calls of rules applied one after the other, from rule k on
RECURSIVE applyRules(_, _, _)
applyRules(s, rules, k) ==
    IF k > Len(rules) THEN s
    ELSE applyRules(replaceAll(s, rules[k].items, 0, rules[k].by), rules, k + 1)

\* typeof output is 'string' for every text of the model
sanitizeCompilerOutput(output) ==
    LET limited == IF Len(output) > MAX_OUTPUT_SIZE
                   THEN SubSeq(output, 1, MAX_OUTPUT_SIZE)
                        \o "\n... (output truncated)"
                   ELSE output
    IN trim(applyRules(replacePaths(limited, 1), compilerOutputRules, 1))

sanitizeErrorMessages(stderr) ==
    applyRules(sanitizeCompilerOutput(stderr), errorMessageRules, 1)

\* /(?:^|[\s:])([\/\\].*?[\/\\])?([a-zA-Z0-9_.-]+\.(cpp|c|h|hpp|cc|cxx))(?=[\s:$])/g
filePathPattern ==
    <<Alt(<< <<Bol>>, <<One(Of(Space \cup {":"}))>> >>),
      Alt(<< <<GroupOpen(1), One(Of({"/", "\\"})), Rep(AnyChar, 0, -1, FALSE),
               One(Of({"/", "\\"})), GroupClose(1)>>,
             <<>> >>),
      GroupOpen(2), Plus(FileChars), Lit("."),
      GroupOpen(3), SourceExtension, GroupClose(3), GroupClose(2),
      Ahead(Of(Space \cup {":", "$"}))>>

sanitizeFilePaths(text) == replaceAll(text, filePathPattern, 3, "fileReplacer")

limitOutputSize(output, maxSize) ==
    IF Len(output) <= maxSize THEN output
    ELSE LET truncationMsg == "\n... (output truncated due to size limit)"
             availableSize == maxSize - Len(truncationMsg)
         IN SubSeq(output, 1, IF availableSize > 0 THEN availableSize ELSE 0)
            \o truncationMsg

removeSystemInfo(output) == applyRules(output, systemInfoRules, 1)

sanitizeStdout(stdout) ==
    removeSystemInfo(sanitizeFilePaths(sanitizeCompilerOutput(stdout)))

sanitizeStderr(stderr) ==
    removeSystemInfo(sanitizeFilePaths(sanitizeErrorMessages(stderr)))

\* the body of sanitizeAST, with the ceiling limitOutputSize applies
sanitizeASTWithin(ast, maxSize) ==
    applyRules(limitOutputSize(sanitizeFilePaths(ast), maxSize), astRules, 1)

\* limitOutputSize(sanitized) uses its default, MAX_OUTPUT_SIZE
sanitizeAST(ast) == sanitizeASTWithin(ast, MAX_OUTPUT_SIZE)

(***************************************************************************)
(* What the facades make of the ClangExecutionResult they awaited.  Each    *)
(* operator gives the response together with the texts the OutputSanitizer  *)
(* returned on the way (sanitized) and the texts whose lines were parsed     *)
(* into diagnostics or analysis results (parsed).                           *)
(***************************************************************************)
\* string.match(regex) for a regex without the g flag: the leftmost match
matchAmong(s, items, groups, starts) ==
    IF starts = {} THEN NoMatch
    ELSE exec(items, groups, s, leftmost(starts))

match(s, items, groups) ==
    matchAmong(s, items, groups, matchStarts(items, s, 1))

\* s.split('\n')
RECURSIVE split(_)
RECURSIVE splitAt(_, _)
split(s) == splitAt(s, {j \in 1..Len(s) : CharAt(s, j) = "\n"})

splitAt(s, breaks) ==
    IF breaks = {} THEN <<s>>
    ELSE <<SubSeq(s, 1, leftmost(breaks) - 1)>>
         \o split(SubSeq(s, leftmost(breaks) + 1, Len(s)))

digitValue(c) == CHOOSE d \in 0..9 : ToString(d) = c

\* parseInt(digits, 10) for a text of decimal digits
RECURSIVE parseInt(_)
parseInt(digits) ==
    IF Len(digits) = 0 THEN 0
    ELSE 10 * parseInt(SubSeq(digits, 1, Len(digits) - 1))
         + digitValue(CharAt(digits, Len(digits)))

\* (error|warning|note)
Severity == Alt(<< <<Lit("error")>>, <<Lit("warning")>>, <<Lit("note")>> >>)

\* (warning|error|note)
AnalyzerSeverity == Alt(<< <<Lit("warning")>>, <<Lit("error")>>, <<Lit("note")>> >>)

\* ^(.+?):(\d+):(\d+):\s*
LocationPrefix ==
    <<Bol, GroupOpen(1), Rep(AnyChar, 1, -1, FALSE), GroupClose(1), Lit(":"),
      GroupOpen(2), Plus(Digits), GroupClose(2), Lit(":"),
      GroupOpen(3), Plus(Digits), GroupClose(3), Lit(":"), Star(Of(Space))>>

\* /^(.+?):(\d+):(\d+):\s*(error|warning|note):\s*(.+)$/
clangPattern ==
    LocationPrefix
    \o <<GroupOpen(4), Severity, GroupClose(4), Lit(":"), Star(Of(Space)),
         GroupOpen(5), Plus(AnyChar), GroupClose(5), Eol>>

\* /^(.+?):(\d+):\s*(error|warning|note):\s*(.+)$/
simplePattern ==
    <<Bol, GroupOpen(1), Rep(AnyChar, 1, -1, FALSE), GroupClose(1), Lit(":"),
      GroupOpen(2), Plus(Digits), GroupClose(2), Lit(":"), Star(Of(Space)),
      GroupOpen(3), Severity, GroupClose(3), Lit(":"), Star(Of(Space)),
      GroupOpen(4), Plus(AnyChar), GroupClose(4), Eol>>

\* the DiagnosticMessage of a line that matches clangPattern
clangDiagnostic(line, m) ==
    [line |-> parseInt(Captured(line, m, 2)[1]),
     column |-> parseInt(Captured(line, m, 3)[1]),
     message |-> trim(Captured(line, m, 5)[1]),
     severity |-> Captured(line, m, 4)[1]]

simpleDiagnostic_columnOne(line, m) ==
    [line |-> parseInt(Captured(line, m, 2)[1]),
     column |-> 1,
     message |-> trim(Captured(line, m, 4)[1]),
     severity |-> Captured(line, m, 3)[1]]

\* the DiagnosticMessage of a line that matches simplePattern
simpleDiagnostic(line, m) ==
    [line |-> parseInt(Captured(line, m, 2)[1]),
     column |-> 0,
     message |-> trim(Captured(line, m, 4)[1]),
     severity |-> Captured(line, m, 3)[1]]

\* the result for the outcomes of the two line.match calls
diagnosticOf(line, clangMatch, simpleMatch) ==
    IF clangMatch.ok THEN <<clangDiagnostic(line, clangMatch)>>
    ELSE IF simpleMatch.ok THEN <<simpleDiagnostic(line, simpleMatch)>>
    ELSE <<>>

\* a DiagnosticMessage, or <<>> for null
parseDiagnosticLine(line) ==
    diagnosticOf(line, match(line, clangPattern, 5), match(line, simplePattern, 4))

\* the diagnostics of the lines from the k-th on, in the order of the lines
RECURSIVE parseDiagnosticLines(_, _)
parseDiagnosticLines(lines, k) ==
    IF k > Len(lines) THEN <<>>
    ELSE parseDiagnosticLine(lines[k]) \o parseDiagnosticLines(lines, k + 1)

\* the switch on diagnostic.severity
bySeverity(found) ==
    [errors   |-> SelectSeq(found, LAMBDA d : d.severity = "error"),
     warnings |-> SelectSeq(found, LAMBDA d : d.severity = "warning"),
     notes    |-> SelectSeq(found, LAMBDA d : d.severity = "note")]

parseDiagnostics(stderr) ==
    bySeverity(IF stderr = "" THEN <<>>
               ELSE parseDiagnosticLines(split(stderr), 1))

\* /clang version ([0-9]+\.[0-9]+\.[0-9]+)/
versionPattern ==
    <<Lit("clang version "), GroupOpen(1), Plus(Digits), Lit("."), Plus(Digits),
      Lit("."), Plus(Digits), GroupClose(1)>>

versionOf(combinedOutput, versionMatch) ==
    IF versionMatch.ok
    THEN "clang version " \o Captured(combinedOutput, versionMatch, 1)[1]
    ELSE "clang (version unknown)"

extractClangVersion(stdout, stderr) ==
    versionOf(stdout \o "\n" \o stderr,
              match(stdout \o "\n" \o stderr, versionPattern, 1))

\* the response of compile for the result r and its two sanitized texts
compilationResponse(r, sanitizedStdout, sanitizedStderr) ==
    [response |-> [kind |-> "CompilationResponse", success |-> r.success,
                   exitCode |-> r.exitCode, stdout |-> sanitizedStdout,
                   stderr |-> sanitizedStderr,
                   diagnostics |-> parseDiagnostics(sanitizedStderr),
                   clangVersion |-> extractClangVersion(r.stdout, r.stderr)],
     sanitized |-> {sanitizedStdout, sanitizedStderr},
     parsed |-> IF sanitizedStderr = "" THEN {} ELSE {sanitizedStderr}]

\* the lines of compile between the awaited result and the return
CompilationResponse(r) ==
    compilationResponse(r, sanitizeStdout(r.stdout), sanitizeStderr(r.stderr))

categorizeChecker(checker) ==
    IF startsWith(checker, "core.") THEN "core"
    ELSE IF startsWith(checker, "security.") THEN "security"
    ELSE IF startsWith(checker, "unix.") THEN "unix"
    ELSE IF startsWith(checker, "deadcode.") THEN "deadcode"
    ELSE IF startsWith(checker, "alpha.") THEN "experimental"
    ELSE "other"

\* /^(.+?):(\d+):(\d+):\s*(warning|error|note):\s*(.+?)\s*\[([^\]]+)\]$/
mainPattern ==
    LocationPrefix
    \o <<GroupOpen(4), AnalyzerSeverity, GroupClose(4), Lit(":"), Star(Of(Space)),
         GroupOpen(5), Rep(AnyChar, 1, -1, FALSE), GroupClose(5), Star(Of(Space)),
         Lit("["), GroupOpen(6), Plus(Not({"]"})), GroupClose(6), Lit("]"), Eol>>

\* /^(.+?):(\d+):(\d+):\s*(warning|error|note):\s*(.+)$/
analyzerSimplePattern ==
    LocationPrefix
    \o <<GroupOpen(4), AnalyzerSeverity, GroupClose(4), Lit(":"), Star(Of(Space)),
         GroupOpen(5), Plus(AnyChar), GroupClose(5), Eol>>

\* the currentResult of a line that matches mainPattern
checkerResult(trimmedLine, m, checker) ==
    [checker |-> checker,
     line |-> parseInt(Captured(trimmedLine, m, 2)[1]),
     column |-> parseInt(Captured(trimmedLine, m, 3)[1]),
     message |-> trim(Captured(trimmedLine, m, 5)[1]),
     severity |-> Captured(trimmedLine, m, 4)[1],
     category |-> categorizeChecker(checker)]

\* the currentResult of a line that matches the simplified pattern
simpleResult(trimmedLine, m) ==
    [checker |-> "unknown",
     line |-> parseInt(Captured(trimmedLine, m, 2)[1]),
     column |-> parseInt(Captured(trimmedLine, m, 3)[1]),
     message |-> trim(Captured(trimmedLine, m, 5)[1]),
     severity |-> Captured(trimmedLine, m, 4)[1],
     category |-> "general"]

\* the currentResult for the outcomes of the two trimmedLine.match calls,
\* or <<>> when the line starts no result
resultOf(trimmedLine, mainMatch, simpleMatch) ==
    IF mainMatch.ok
    THEN <<checkerResult(trimmedLine, mainMatch,
                         trim(Captured(trimmedLine, mainMatch, 6)[1]))>>
    ELSE IF simpleMatch.ok THEN <<simpleResult(trimmedLine, simpleMatch)>>
    ELSE <<>>

analysisResultOf(trimmedLine) ==
    IF trimmedLine = "" THEN <<>>
    ELSE resultOf(trimmedLine, match(trimmedLine, mainPattern, 6),
                  match(trimmedLine, analyzerSimplePattern, 5))

\* results.push(currentResult) when currentResult.checker is truthy
pushed(currentResult) ==
    IF currentResult # <<>> /\ currentResult[1].checker # ""
    THEN currentResult ELSE <<>>

\* the for loop of parseAnalysisResults from line k on, and the push after it
RECURSIVE analysisLoop(_, _, _)
RECURSIVE analysisStep(_, _, _, _)
analysisLoop(lines, k, currentResult) ==
    IF k > Len(lines) THEN pushed(currentResult)
    ELSE analysisStep(lines, k, currentResult, analysisResultOf(trim(lines[k])))

analysisStep(lines, k, currentResult, found) ==
    (IF found = <<>> THEN <<>> ELSE pushed(currentResult))
    \o analysisLoop(lines, k + 1, IF found = <<>> THEN currentResult ELSE found)

\* parseAnalysisResults up to its last statement
unsanitizedResults(stdout, stderr) ==
    IF trim(stderr \o "\n" \o stdout) = "" THEN <<>>
    ELSE analysisLoop(split(stderr \o "\n" \o stdout), 1, <<>>)

\* results.map(result => ({...result, message: sanitizeCompilerOutput(...)}))
sanitizedResults(results) ==
    [n \in 1..Len(results) |->
        [results[n] EXCEPT !.message = sanitizeCompilerOutput(@)]]

parseAnalysisResults(stdout, stderr) ==
    sanitizedResults(unsanitizedResults(stdout, stderr))

\* the response of analyze for the result r and its analysis results
analysisResponse(r, analysisResults) ==
    [response |-> [kind |-> "StaticAnalysisResponse", success |-> TRUE,
                   analysisResults |-> analysisResults],
     sanitized |-> {analysisResults[n].message : n \in 1..Len(analysisResults)},
     parsed |-> IF trim(r.stderr \o "\n" \o r.stdout) = "" THEN {}
                ELSE {r.stderr \o "\n" \o r.stdout}]

\* the lines of analyze between the awaited result and the return
StaticAnalysisResponse(r) ==
    analysisResponse(r, parseAnalysisResults(r.stdout, r.stderr))

\* the response of generateAST for the AST text and its sanitized form
astResponse(format, astOutput, sanitizedAST) ==
    [response |-> [kind |-> "ASTResponse", success |-> trim(astOutput) # "",
                   ast |-> sanitizedAST,
                   format |-> IF TruthyStr(format) THEN format[1] ELSE "dump"],
     sanitized |-> {sanitizedAST},
     parsed |-> {}]

\* the lines of generateAST between the awaited result and the return
ASTResponse(format, r) ==
    astResponse(format, IF r.success THEN r.stdout ELSE r.stderr,
                sanitizeAST(IF r.success THEN r.stdout ELSE r.stderr))

(***************************************************************************)
(* Inputs                                                                  *)
(***************************************************************************)
Lists(S) == UNION {[1..n -> S] : n \in 0..MaxListLen}

Text(n) == [typ |-> "string", length |-> n]

\* sourceCode: null (typeof 'object') and texts around the two size limits
SourceSamples ==
    {[typ |-> "object", length |-> 0], Text(0), Text(1), Text(21),
     Text(MAX_SOURCE_SIZE - 1), Text(MAX_SOURCE_SIZE),
     Text(MAX_SOURCE_SIZE + 1), Text(2 * MAX_SOURCE_SIZE)}

DefineSamples == {"NDEBUG", "VERSION=1", "_X9=a.b-c", "123INVALID", "A=b c", ""}

IncludeSamples ==
    {"include", "src/headers", "../../../etc/passwd", "/usr/include",
     "~root", "a~b", "lib/..", "a b", "a.h", ""}

FlagSamples ==
    {"-Wall", "-std=c++17", "-DDEBUG=1", "-D123INVALID", "-D",
     "-Isrc/include", "-I../secret", "-I/etc", "-I~", "-Ia b", "-I",
     "-fPIC", "-lm", "-Wl,-o,/tmp/x", "--system-call", "-o", "-o/tmp/x",
     "main.o", ""}

TimeoutSamples == {-1, 0, 1, 30, 60, 61, 120}

CheckerSamples == {"core.DivideZero", "unix.Malloc", "alpha.Bogus"}

\* the minimal request: a source text and nothing else
minimalOptions ==
    [sourceCode |-> Text(21), language |-> <<>>, optimization |-> <<>>,
     warnings |-> <<>>, defines |-> <<>>, includes |-> <<>>, flags |-> <<>>,
     compileOnly |-> FALSE, timeout |-> <<>>, checkers |-> <<>>,
     format |-> <<>>]

Tools == {"compile", "analyze", "ast"}

\* the fields of CompilationOptions, StaticAnalysisOptions and ASTOptions
FieldsOf(t) ==
    CASE t = "compile" -> {"sourceCode", "language", "optimization", "warnings",
                           "defines", "includes", "flags", "compileOnly",
                           "timeout"}
      [] t = "analyze" -> {"sourceCode", "language", "checkers", "defines",
                           "includes"}
      [] t = "ast"     -> {"sourceCode", "language", "format"}

\* values a request field takes in the pipeline
FieldValues(f) ==
    CASE f = "sourceCode"   -> {Text(0), Text(MAX_SOURCE_SIZE),
                                Text(MAX_SOURCE_SIZE + 1)}
      [] f = "language"     -> {<<"c++17">>, <<"c11">>, <<"c++25">>, <<"">>}
      [] f = "optimization" -> {<<"O3">>, <<"O4">>}
      [] f = "warnings"     -> {<<"none">>, <<"all">>, <<"extra">>,
                                <<"pedantic">>, <<"error">>, <<"loud">>}
      [] f = "defines"      -> {<< <<"NDEBUG">> >>,
                                << <<"NDEBUG", "VERSION=1">> >>,
                                << <<"NDEBUG", "123INVALID">> >>}
      [] f = "includes"     -> {<< <<"include">> >>,
                                << <<"include", "src/headers">> >>,
                                << <<"include", "../etc">> >>}
      [] f = "flags"        -> {<< <<>> >>,
                                << <<"-Wall">> >>,
                                << <<"-DDEBUG=1", "-Isrc">> >>,
                                << <<"-I">> >>,
                                << <<"-o">> >>,
                                << <<"--dangerous-flag">> >>,
                                << <<"-Wall", "--dangerous-flag">> >>,
                                << <<"-D123INVALID", "--dangerous-flag">> >>}
      [] f = "compileOnly"  -> {TRUE}
      [] f = "timeout"      -> {<<-1>>, <<0>>, <<1>>, <<60>>, <<61>>}
      [] f = "checkers"     -> {<< <<>> >>,
                                << <<"core.DivideZero">> >>,
                                << <<"core.DivideZero", "unix.Malloc">> >>,
                                << <<"unix.Malloc", "alpha.Bogus">> >>}
      [] f = "format"       -> {<<"json">>, <<"dump">>, <<"graphviz">>,
                                <<"xml">>}

RECURSIVE Deviating(_, _)
Deviating(t, k) ==
    IF k = 0 THEN {minimalOptions}
    ELSE Deviating(t, k - 1)
         \cup UNION {{[o EXCEPT ![f] = v] : v \in FieldValues(f)} :
                        <<o, f>> \in Deviating(t, k - 1) \X FieldsOf(t)}

Requests(t) == Deviating(t, MaxDeviations)

\* what the child writes before it ends: nothing, a diagnostic, an AST dump
OutputSamples ==
    {[stdout |-> "", stderr |-> ""],
     [stdout |-> "",
      stderr |-> "source.cpp:1:2: error: Compilation timed out\n"],
     [stdout |-> "TranslationUnitDecl 0x55d1c8 <<invalid sloc>>\n",
      stderr |-> ""]}

\* code handed to the 'close' handler: null (ended by a signal), 0, 1, 255
ExitCodes == {<<>>, <<0>>, <<1>>, <<255>>}

(***************************************************************************)
(* The request pipeline                                                    *)
(***************************************************************************)
NoOutput == [stdout |-> "", stderr |-> ""]

RequestIds == 1..MaxRequests

\* a request that has not been submitted
NoRequest == [pc |-> "idle", workDir |-> "", sourceFile |-> ""]

Init ==
    /\ vcall = [fn |-> "none", arg |-> <<>>]
    /\ vret = <<>>
    /\ pc = "idle"
    /\ tool = "none"
    /\ options = minimalOptions
    /\ workDir = ""
    /\ sourceFile = ""
    /\ dirs = {tempDir}
    /\ files = {}
    /\ command = <<>>
    /\ proc = "none"
    /\ killed = FALSE
    /\ timer = <<>>
    /\ spawns = 0
    /\ out = NoOutput
    /\ result = <<>>
    /\ response = <<>>
    /\ reqs = [r \in RequestIds |-> NoRequest]

\* fs.rm(dir, {recursive: true, force: true}): what is left on disk
rmDirs(dirSet, dir) ==
    {d \in dirSet : d # dir /\ ~startsWith(d, dir \o "/")}

rmFiles_parent(fileSet, dir) ==
    {f \in fileSet : ~startsWith(f, tempDir \o "/")}

rmFiles(fileSet, dir) ==
    {f \in fileSet : ~startsWith(f, dir \o "/")}

resolve_lastWins(r) == <<r>>

\* a promise settles once: later calls of resolve are ignored
resolve(r) == IF result = <<>> THEN <<r>> ELSE result

Enter_mkdirFirst(t, o) ==
    /\ pc = "idle"
    /\ tool' = t
    /\ options' = o
    /\ \E u \in UUIDs : workDir' = path_join(tempDir, u)
    /\ dirs' = dirs \cup {workDir'}
    /\ LET v == validateInputs(t, o) IN
         IF ~v.success
         THEN /\ response' = <<validationErrorResponse(v.error)>>
              /\ pc' = "done"
         ELSE /\ pc' = "mkdir"
              /\ UNCHANGED response
    /\ UNCHANGED <<reqs, vcall, vret, sourceFile, files, command, proc, killed,
                   timer, spawns, out, result>>

\* compile / analyze / generateAST up to the first await: validateInputs,
\* then executeWithCleanup -> createWorkEnvironment -> fs.mkdir
Enter(t, o) ==
    /\ pc = "idle"
    /\ tool' = t
    /\ options' = o
    /\ LET v == validateInputs(t, o) IN
         IF ~v.success
         THEN /\ response' = <<validationErrorResponse(v.error)>>
              /\ pc' = "done"
              /\ UNCHANGED workDir
         ELSE /\ \E u \in UUIDs : workDir' = path_join(tempDir, u)
              /\ pc' = "mkdir"
              /\ UNCHANGED response
    /\ UNCHANGED <<reqs, vcall, vret, sourceFile, dirs, files, command, proc, killed,
                   timer, spawns, out, result>>

compile == pc = "idle" /\ \E o \in Requests("compile") : Enter("compile", o)

analyze == pc = "idle" /\ \E o \in Requests("analyze") : Enter("analyze", o)

generateAST == pc = "idle" /\ \E o \in Requests("ast") : Enter("ast", o)

\* fs.mkdir succeeded; createWorkEnvironment goes on to fs.writeFile
Mkdir ==
    /\ pc = "mkdir"
    /\ dirs' = dirs \cup {workDir}
    /\ sourceFile' = path_join(workDir,
                        "source." \o getFileExtension(languageOrDefault(options)))
    /\ pc' = "writeFile"
    /\ UNCHANGED <<reqs, vcall, vret, tool, options, workDir, files, command, proc,
                   killed, timer, spawns, out, result, response>>

\* fs.mkdir rejected: the facade's catch block answers
MkdirFails ==
    /\ pc = "mkdir"
    /\ response' = <<errorResponse(tool,
                        "ENOSPC: no space left on device, mkdir '"
                        \o workDir \o "'")>>
    /\ pc' = "done"
    /\ UNCHANGED <<reqs, vcall, vret, tool, options, workDir, sourceFile, dirs, files,
                   command, proc, killed, timer, spawns, out, result>>

\* fs.writeFile succeeded; executeWithCleanup enters its try block, the
\* operation builds the command and executeClang spawns it and arms the timer
WriteFile ==
    /\ pc = "writeFile"
    /\ files' = files \cup {sourceFile}
    /\ command' = buildCommand(tool, options, sourceFile, workDir)
    /\ proc' = "running"
    /\ timer' = <<armedTimeout(tool, options)>>
    /\ spawns' = spawns + 1
    /\ pc' = "running"
    /\ UNCHANGED <<reqs, vcall, vret, tool, options, workDir, sourceFile, dirs,
                   killed, out, result, response>>

\* fs.writeFile rejected inside createWorkEnvironment, before the try block
\* of executeWithCleanup: the facade's catch block answers
WriteFileFails ==
    /\ pc = "writeFile"
    /\ response' = <<errorResponse(tool,
                        "ENOSPC: no space left on device, write")>>
    /\ pc' = "done"
    /\ UNCHANGED <<reqs, vcall, vret, tool, options, workDir, sourceFile, dirs, files,
                   command, proc, killed, timer, spawns, out, result>>

\* 'data' handlers of the child's stdout and stderr
Data ==
    /\ pc = "running"
    /\ proc = "running"
    /\ out = NoOutput
    /\ \E o \in OutputSamples \ {NoOutput} : out' = o
    /\ UNCHANGED <<reqs, vcall, vret, pc, tool, options, workDir, sourceFile, dirs,
                   files, command, proc, killed, timer, spawns, result,
                   response>>

\* the child ends by itself: 'close' handler (cleanup, resolve), then the
\* finally block of executeWithCleanup calls fs.rm
Close ==
    /\ pc = "running"
    /\ proc = "running"
    /\ \E code \in ExitCodes : result' = resolve(closeResult(out, code))
    /\ timer' = <<>>
    /\ proc' = "closed"
    /\ pc' = "rm"
    /\ UNCHANGED <<reqs, vcall, vret, tool, options, workDir, sourceFile, dirs, files,
                   command, killed, spawns, out, response>>

\* the timer fires while the child runs: cleanup kills it, resolve, then the
\* finally block of executeWithCleanup calls fs.rm
Timeout ==
    /\ pc = "running"
    /\ proc = "running"
    /\ timer # <<>>
    /\ result' = resolve(timeoutResult(out, tool))
    /\ timer' = <<>>
    /\ killed' = TRUE
    /\ proc' = "killed"
    /\ pc' = "rm"
    /\ UNCHANGED <<reqs, vcall, vret, tool, options, workDir, sourceFile, dirs, files,
                   command, spawns, out, response>>

\* the child could not be spawned: 'error' handler
SpawnError ==
    /\ pc = "running"
    /\ proc = "running"
    /\ out = NoOutput
    /\ result' = resolve(errorResult(out, "spawn " \o command[1] \o " ENOENT"))
    /\ timer' = <<>>
    /\ proc' = "failed"
    /\ pc' = "rm"
    /\ UNCHANGED <<reqs, vcall, vret, tool, options, workDir, sourceFile, dirs, files,
                   command, killed, spawns, out, response>>

\* 'close' of a child that the timeout killed: cleanup finds nothing to do
\* and resolve is ignored
LateClose ==
    /\ proc = "killed"
    /\ result' = resolve(closeResult(out, <<>>))
    /\ proc' = "closed"
    /\ UNCHANGED <<reqs, vcall, vret, pc, tool, options, workDir, sourceFile, dirs,
                   files, command, killed, timer, spawns, out, response>>

\* 'close' of a child that could not be spawned, after its 'error' event
\* (code is the negative errno): cleanup finds nothing to do and resolve is
\* ignored
CloseAfterError ==
    /\ proc = "failed"
    /\ result' = resolve(closeResult(out, <<-2>>))
    /\ proc' = "closed"
    /\ UNCHANGED <<reqs, vcall, vret, pc, tool, options, workDir, sourceFile, dirs,
                   files, command, killed, timer, spawns, out, response>>

\* fs.rm(workDir, {recursive, force}) is done; the facade builds its response
Rm ==
    /\ pc = "rm"
    /\ dirs' = rmDirs(dirs, workDir)
    /\ files' = rmFiles(files, workDir)
    /\ response' = <<successResponse(tool, result[1])>>
    /\ pc' = "done"
    /\ UNCHANGED <<reqs, vcall, vret, tool, options, workDir, sourceFile, command,
                   proc, killed, timer, spawns, out, result>>

Next ==
    \/ compile
    \/ analyze
    \/ generateAST
    \/ Mkdir
    \/ MkdirFails
    \/ WriteFile
    \/ WriteFileFails
    \/ Data
    \/ Close
    \/ Timeout
    \/ SpawnError
    \/ LateClose
    \/ CloseAfterError
    \/ Rm

Spec == Init /\ [][Next]_vars

\* the event loop runs a timer that is due: setTimeout callbacks are not
\* starved while the process is alive
SpecT == Spec /\ WF_vars(Timeout)

(***************************************************************************)
(* Requests in flight together.  The facades keep no state between          *)
(* requests except tempDir; each call of executeWithCleanup runs on its own  *)
(* and the calls interleave at their awaits.  The requests are validated     *)
(* minimal requests.                                                         *)
(***************************************************************************)
\* randomUUID(): a value that no earlier call returned
randomUUID == UUIDs \ {u \in UUIDs : \E q \in RequestIds :
                                        reqs[q].workDir = path_join(tempDir, u)}

\* the facade is called: validateInputs passes, createWorkEnvironment picks
\* the work directory and calls fs.mkdir
Submit(r) ==
    /\ reqs[r].pc = "idle"
    /\ \E u \in randomUUID :
          reqs' = [reqs EXCEPT ![r] =
                      [pc |-> "mkdir", workDir |-> path_join(tempDir, u),
                       sourceFile |-> ""]]
    /\ UNCHANGED <<vcall, vret, pc, tool, options, workDir, sourceFile, dirs,
                   files, command, proc, killed, timer, spawns, out, result,
                   response>>

\* fs.mkdir of request r succeeded; fs.writeFile is called
MkdirOf(r) ==
    /\ reqs[r].pc = "mkdir"
    /\ dirs' = dirs \cup {reqs[r].workDir}
    /\ reqs' = [reqs EXCEPT ![r].pc = "writeFile",
                            ![r].sourceFile =
                                path_join(reqs[r].workDir,
                                    "source." \o getFileExtension(
                                        languageOrDefault(minimalOptions)))]
    /\ UNCHANGED <<vcall, vret, pc, tool, options, workDir, sourceFile, files,
                   command, proc, killed, timer, spawns, out, result, response>>

\* fs.mkdir of request r rejected: the catch block of the facade answers
MkdirFailsOf(r) ==
    /\ reqs[r].pc = "mkdir"
    /\ reqs' = [reqs EXCEPT ![r].pc = "done"]
    /\ UNCHANGED <<vcall, vret, pc, tool, options, workDir, sourceFile, dirs,
                   files, command, proc, killed, timer, spawns, out, result,
                   response>>

\* fs.writeFile of request r succeeded; the operation builds the command and
\* executeClang spawns the process
WriteFileOf(r) ==
    /\ reqs[r].pc = "writeFile"
    /\ files' = files \cup {reqs[r].sourceFile}
    /\ spawns' = spawns + 1
    /\ reqs' = [reqs EXCEPT ![r].pc = "running"]
    /\ UNCHANGED <<vcall, vret, pc, tool, options, workDir, sourceFile, dirs,
                   command, proc, killed, timer, out, result, response>>

\* fs.writeFile of request r rejected: the catch block of the facade answers
WriteFileFailsOf(r) ==
    /\ reqs[r].pc = "writeFile"
    /\ reqs' = [reqs EXCEPT ![r].pc = "done"]
    /\ UNCHANGED <<vcall, vret, pc, tool, options, workDir, sourceFile, dirs,
                   files, command, proc, killed, timer, spawns, out, result,
                   response>>

\* the promise of executeClang of request r settles ('close', timer or
\* 'error'); the finally block of executeWithCleanup calls fs.rm
SettleOf(r) ==
    /\ reqs[r].pc = "running"
    /\ reqs' = [reqs EXCEPT ![r].pc = "rm"]
    /\ UNCHANGED <<vcall, vret, pc, tool, options, workDir, sourceFile, dirs,
                   files, command, proc, killed, timer, spawns, out, result,
                   response>>

\* fs.rm of request r is done; the facade answers
RmOf(r) ==
    /\ reqs[r].pc = "rm"
    /\ dirs' = rmDirs(dirs, reqs[r].workDir)
    /\ files' = rmFiles(files, reqs[r].workDir)
    /\ reqs' = [reqs EXCEPT ![r].pc = "done"]
    /\ UNCHANGED <<vcall, vret, pc, tool, options, workDir, sourceFile,
                   command, proc, killed, timer, spawns, out, result, response>>

NextC ==
    \E r \in RequestIds :
        \/ Submit(r)
        \/ MkdirOf(r)
        \/ MkdirFailsOf(r)
        \/ WriteFileOf(r)
        \/ WriteFileFailsOf(r)
        \/ SettleOf(r)
        \/ RmOf(r)

SpecC == Init /\ [][NextC]_vars

(***************************************************************************)
(* The validators called on their own, on inputs richer than those of the   *)
(* pipeline.                                                               *)
(***************************************************************************)
Call(fn, arg) == [fn |-> fn, arg |-> arg]

ValidatorCalls ==
    {Call("validateSourceCode", s) : s \in SourceSamples}
    \cup {Call("validateLanguageStandard", l) : l \in {"c11", "c++23", "c++25", ""}}
    \cup {Call("validateOptimizationLevel", l) : l \in {"O0", "Ofast", "O4"}}
    \cup {Call("validateWarningLevel", l) : l \in {"none", "error", "loud"}}
    \cup {Call("validateDefines", l) : l \in Lists(DefineSamples)}
    \cup {Call("validateIncludes", l) : l \in Lists(IncludeSamples)}
    \cup {Call("validateCompilerFlags", l) : l \in Lists(FlagSamples)}
    \cup {Call("validateTimeout", n) : n \in TimeoutSamples}
    \cup {Call("validateCheckers", l) : l \in Lists(CheckerSamples)}

InitV ==
    /\ vcall \in ValidatorCalls
    /\ vret = <<>>
    /\ pc = "idle"
    /\ tool = "none"
    /\ options = minimalOptions
    /\ workDir = ""
    /\ sourceFile = ""
    /\ dirs = {tempDir}
    /\ files = {}
    /\ command = <<>>
    /\ proc = "none"
    /\ killed = FALSE
    /\ timer = <<>>
    /\ spawns = 0
    /\ out = NoOutput
    /\ result = <<>>
    /\ response = <<>>
    /\ reqs = [r \in RequestIds |-> NoRequest]

Returns(fn, r) ==
    /\ vcall.fn = fn
    /\ vret = <<>>
    /\ vret' = <<r>>
    /\ UNCHANGED <<vcall, pipelineVars>>

CallValidateSourceCode ==
    vcall.fn = "validateSourceCode"
    /\ Returns("validateSourceCode", validateSourceCode(vcall.arg))

CallValidateLanguageStandard ==
    vcall.fn = "validateLanguageStandard"
    /\ Returns("validateLanguageStandard", validateLanguageStandard(vcall.arg))

CallValidateOptimizationLevel ==
    vcall.fn = "validateOptimizationLevel"
    /\ Returns("validateOptimizationLevel", validateOptimizationLevel(vcall.arg))

CallValidateWarningLevel ==
    vcall.fn = "validateWarningLevel"
    /\ Returns("validateWarningLevel", validateWarningLevel(vcall.arg))

CallValidateDefines ==
    vcall.fn = "validateDefines"
    /\ Returns("validateDefines", validateDefines(vcall.arg))

CallValidateIncludes ==
    vcall.fn = "validateIncludes"
    /\ Returns("validateIncludes", validateIncludes(vcall.arg))

CallValidateCompilerFlags ==
    vcall.fn = "validateCompilerFlags"
    /\ Returns("validateCompilerFlags", validateCompilerFlags(vcall.arg))

CallValidateTimeout ==
    vcall.fn = "validateTimeout"
    /\ Returns("validateTimeout", validateTimeout(vcall.arg))

CallValidateCheckers ==
    vcall.fn = "validateCheckers"
    /\ Returns("validateCheckers", validateCheckers(vcall.arg))

NextV ==
    \/ CallValidateSourceCode
    \/ CallValidateLanguageStandard
    \/ CallValidateOptimizationLevel
    \/ CallValidateWarningLevel
    \/ CallValidateDefines
    \/ CallValidateIncludes
    \/ CallValidateCompilerFlags
    \/ CallValidateTimeout
    \/ CallValidateCheckers

SpecV == InitV /\ [][NextV]_vars

\* the validator fn has returned r for the argument vcall.arg
Returned(fn) == vcall.fn = fn /\ vret # <<>>

(***************************************************************************)
(* The OutputSanitizer and the facades' handling of the execution result,   *)
(* called on their own on texts clang, the analyzer and the linker print    *)
(* for a source file of a work directory.                                   *)
(***************************************************************************)
WorkDirs == {path_join(tempDir, u) : u \in UUIDs}

\* texts that name no file of the work directory
PlainOutputs ==
    {"",
     "clang version 15.0.7 (Fedora 15.0.7-1)\nTarget: x86_64-redhat-linux-gnu\nThread model: posix\nInstalledDir: /usr/bin",
     "User ID: 1000 Group ID: 100 PID: 4242 process 17 container ABCDEF012345",
     "2024-01-02 03:04:05 started\n\n\n\n1 error generated.  ",
     "|-VarDecl 0x7f3a10 <line:3 col:5> x 'int'",
     "TranslationUnitDecl 0x55d1c8 <<invalid sloc>>\n",
     "/app/workspace/main.cpp:2:3: error: y",
     "source.cpp:3:5: warning: Division by zero in process 4242 [core.DivideZero]"}

\* texts that name the source file, or another file, of the work directory
OutputsNaming(dir) ==
    LET source == path_join(dir, "source.cpp")
    IN {source \o ":1:5: error: expected ';'",
        source \o ":3:1: warning: unused variable 'x' [-Wunused-variable]\n"
            \o source \o ":4:2: note: declared here",
        "In file included from " \o source
            \o ":1:\n/usr/lib/gcc/x86_64/11/include/stddef.h:2:1: error: x",
        "FunctionDecl 0x55d1c8 <" \o source
            \o ":1:1, col:24> col:5 main 'int ()'",
        source \o ":7:1: warning: Null pointer passed [core.NonNullParamChecker]\n"
            \o "clang version 15.0.7\n"}

\* what the linker prints to stderr about the object file of the work directory
LinkerOutputs(dir) ==
    {"/usr/bin/ld: " \o path_join(dir, "main.o") \o ": in function `main'"}

\* texts of stdout or stderr when no link step runs (-fsyntax-only, --analyze)
RawOutputs == PlainOutputs \cup UNION {OutputsNaming(dir) : dir \in WorkDirs}

\* texts of stdout or stderr of a compilation
CompilerOutputs == RawOutputs \cup UNION {LinkerOutputs(dir) : dir \in WorkDirs}

\* the absolute paths under a work directory that the texts name
PathsUnderWorkDir ==
    {path_join(dir, name) : dir \in WorkDirs, name \in {"source.cpp", "main.o"}}

\* the ClangExecutionResults executeClang resolves for tool t, for a few of
\* the texts
ExecutionResults(t) ==
    {closeResult([stdout |-> "", stderr |-> e], <<1>>) :
        e \in OutputsNaming(path_join(tempDir, "1b4e28ba"))}
    \cup {closeResult([stdout |-> a, stderr |-> e], <<0>>) :
            a \in {"", "TranslationUnitDecl 0x55d1c8 <<invalid sloc>>\n"},
            e \in {"", "source.cpp:3:5: warning: Division by zero in process 4242 [core.DivideZero]"}}
    \cup {timeoutResult(NoOutput, t), errorResult(NoOutput, "spawn clang ENOENT")}

SanitizerCalls ==
    {Call(fn, x) : fn \in {"sanitizeStdout", "sanitizeStderr"},
                   x \in CompilerOutputs}
    \cup {Call("sanitizeAST", x) : x \in RawOutputs}

FacadeCalls ==
    {Call("compile", r) : r \in ExecutionResults("compile")}
    \cup {Call("analyze", r) : r \in ExecutionResults("analyze")}
    \cup {Call("generateAST", r) : r \in ExecutionResults("ast")}

InitO ==
    /\ (vcall \in SanitizerCalls \/ vcall \in FacadeCalls)
    /\ vret = <<>>
    /\ pc = "idle"
    /\ tool = "none"
    /\ options = minimalOptions
    /\ workDir = ""
    /\ sourceFile = ""
    /\ dirs = {tempDir}
    /\ files = {}
    /\ command = <<>>
    /\ proc = "none"
    /\ killed = FALSE
    /\ timer = <<>>
    /\ spawns = 0
    /\ out = NoOutput
    /\ result = <<>>
    /\ response = <<>>
    /\ reqs = [r \in RequestIds |-> NoRequest]

CallSanitizeStdout ==
    vcall.fn = "sanitizeStdout"
    /\ Returns("sanitizeStdout", sanitizeStdout(vcall.arg))

CallSanitizeStderr ==
    vcall.fn = "sanitizeStderr"
    /\ Returns("sanitizeStderr", sanitizeStderr(vcall.arg))

CallSanitizeAST ==
    vcall.fn = "sanitizeAST"
    /\ Returns("sanitizeAST", sanitizeAST(vcall.arg))

\* compile from the result of executeWithCleanup on
CompileResponds ==
    vcall.fn = "compile"
    /\ Returns("compile", CompilationResponse(vcall.arg))

\* analyze from the result of executeWithCleanup on
AnalyzeResponds ==
    vcall.fn = "analyze"
    /\ Returns("analyze", StaticAnalysisResponse(vcall.arg))

\* generateAST from the result of executeWithCleanup on
GenerateASTResponds ==
    vcall.fn = "generateAST"
    /\ Returns("generateAST", ASTResponse(options.format, vcall.arg))

NextO ==
    \/ CallSanitizeStdout
    \/ CallSanitizeStderr
    \/ CallSanitizeAST
    \/ CompileResponds
    \/ AnalyzeResponds
    \/ GenerateASTResponds

SpecO == InitO /\ [][NextO]_vars

(***************************************************************************)
(* Properties                                                              *)
(***************************************************************************)
Entered == pc # "idle"

IsValidationError(r) ==
    r # <<>> /\ r[1].kind = "ErrorResponse" /\ ~r[1].success
    /\ r[1].code = "VALIDATION_ERROR"

endsWith(s, suffix) ==
    Len(s) >= Len(suffix)
    /\ SubSeq(s, Len(s) - Len(suffix) + 1, Len(s)) = suffix

\* C1: a request whose source text has length 0 is answered by compile,
\* analyze and generateAST with a VALIDATION_ERROR failure whose message
\* contains "empty", whatever the other fields are; nothing else is started.
C1_EmptySourceRejected ==
    (Entered /\ options.sourceCode.typ = "string"
             /\ options.sourceCode.length = 0)
    => /\ pc = "done"
       /\ IsValidationError(response)
       /\ includes(response[1].message, "empty")

C1_Witness ==
    /\ pc = "done"
    /\ tool = "analyze"
    /\ options.sourceCode = Text(0)
    /\ options.language = <<"c++25">>
    /\ IsValidationError(response)

\* C2: validateSourceCode rejects every text longer than 1,048,576 with an
\* error stating 1048576, and accepts every text of length 1 to 1,048,576.
C2_SourceSizeLimit ==
    (Returned("validateSourceCode") /\ vcall.arg.typ = "string")
    => /\ vcall.arg.length > 1048576
            => /\ ~vret[1].success
               /\ includes(vret[1].error, "1048576")
       /\ (vcall.arg.length >= 1 /\ vcall.arg.length <= 1048576)
            => /\ vret[1].success
               /\ vret[1].sanitized = vcall.arg

C2_Witness ==
    /\ Returned("validateSourceCode")
    /\ vcall.arg = Text(1048576)
    /\ vret[1].success

\* the flags the claims call disallowed: outside the allow-list and without
\* one of the prefixes -D, -I, -L, -l, -W, -f, -m
Disallowed(flag) ==
    /\ flag \notin ALLOWED_FLAGS
    /\ \A p \in {"-D", "-I", "-L", "-l", "-W", "-f", "-m"} : ~startsWith(flag, p)

\* the compile request o with its flags cut before position i
FlagsBefore(o, i) == [o EXCEPT !.flags = <<SubSeq(o.flags[1], 1, i - 1)>>]

\* C3: a compile request carrying a disallowed flag never gets a command
\* built, and when everything before that flag is valid the answer is a
\* VALIDATION_ERROR whose message names exactly that flag.
C3_DisallowedFlagRejected ==
    (Entered /\ tool = "compile" /\ options.flags # <<>>)
    => \A i \in 1..Len(options.flags[1]) :
          Disallowed(options.flags[1][i])
          => /\ command = <<>>
             /\ spawns = 0
             /\ CompilationTool_validateInputs(FlagsBefore(options, i)).success
                  => /\ pc = "done"
                     /\ IsValidationError(response)
                     /\ response[1].message
                          = "Disallowed compiler flag: " \o options.flags[1][i]

C3_Witness ==
    /\ pc = "done"
    /\ tool = "compile"
    /\ options.flags = << <<"-Wall", "--dangerous-flag">> >>
    /\ IsValidationError(response)
    /\ endsWith(response[1].message, "--dangerous-flag")

\* C4: every flag accepted by validateCompilerFlags that starts with -D
\* (-I) has a rest, after the two characters, that validateDefines
\* (validateIncludes) accepts as a one-element list.
C4_PrefixedFlagsRevalidated ==
    (Returned("validateCompilerFlags") /\ vret[1].success)
    => \A i \in 1..Len(vcall.arg) :
          /\ startsWith(vcall.arg[i], "-D")
               => validateDefines(<<substring(vcall.arg[i], 2)>>).success
          /\ startsWith(vcall.arg[i], "-I")
               => validateIncludes(<<substring(vcall.arg[i], 2)>>).success

\* the entries C5 is about
TraversalEntry(e) ==
    includes(e, "..") \/ startsWith(e, "/") \/ startsWith(e, "~")

TraversalMessage(e) ==
    "Invalid include path: " \o e \o ". Relative paths and traversal not allowed"

\* C5 (as stated): validateIncludes rejects every list that contains an
\* entry with "..", a leading "/" or a leading "~", with the traversal
\* message naming such an entry.
C5_TraversalAlwaysNamed ==
    (Returned("validateIncludes")
        /\ \E i \in 1..Len(vcall.arg) : TraversalEntry(vcall.arg[i]))
    => /\ ~vret[1].success
       /\ \E i \in 1..Len(vcall.arg) :
             /\ TraversalEntry(vcall.arg[i])
             /\ vret[1].error = TraversalMessage(vcall.arg[i])

\* C5 (amended): validateIncludes rejects every list that contains such an
\* entry; the message is the traversal message naming the entry when every
\* entry before it is acceptable on its own (the error is that of the first
\* invalid entry of the list).
C5_TraversalRejected ==
    Returned("validateIncludes")
    => \A i \in 1..Len(vcall.arg) :
          TraversalEntry(vcall.arg[i])
          => /\ ~vret[1].success
             /\ (\A j \in 1..(i - 1) : validateIncludes(<<vcall.arg[j]>>).success)
                  => vret[1].error = TraversalMessage(vcall.arg[i])

C5_Witness ==
    /\ Returned("validateIncludes")
    /\ vcall.arg = <<"include", "~root">>
    /\ ~vret[1].success
    /\ vret[1].error = TraversalMessage("~root")

\* C6: a compile request carrying a timeout outside [1,60] (0 and negative
\* values included) is answered with VALIDATION_ERROR, with the message
\* "between 1 and 60 seconds" when the rest of the request is valid, and no
\* process is launched.
C6_TimeoutOutOfRangeRejected ==
    (Entered /\ tool = "compile" /\ options.timeout # <<>>
        /\ (options.timeout[1] < 1 \/ options.timeout[1] > 60))
    => /\ pc = "done"
       /\ spawns = 0
       /\ IsValidationError(response)
       /\ CompilationTool_validateInputs([options EXCEPT !.timeout = <<>>]).success
            => includes(response[1].message, "between 1 and 60 seconds")

\* the elements of a command that come from request fields
UserElements(o) ==
    {"-std=" \o o.language[i] : i \in 1..Len(o.language)}
    \cup {"-" \o o.optimization[i] : i \in 1..Len(o.optimization)}
    \cup UNION {{"-D" \o o.defines[k][i] : i \in 1..Len(o.defines[k])} :
                    k \in 1..Len(o.defines)}
    \cup UNION {{"-I" \o o.includes[k][i] : i \in 1..Len(o.includes[k])} :
                    k \in 1..Len(o.includes)}
    \cup UNION {{o.flags[k][i] : i \in 1..Len(o.flags[k])} :
                    k \in 1..Len(o.flags)}
    \cup UNION {{"-analyzer-checker=" \o o.checkers[k][i] :
                    i \in 1..Len(o.checkers[k])} : k \in 1..Len(o.checkers)}

\* C7: the command built for a validated request by any of the three
\* builders ends with the managed source file path, which is the only
\* occurrence of that path and is no element derived from a request field.
C7_SourceFileLast ==
    command # <<>>
    => /\ command[Len(command)] = sourceFile
       /\ sourceFile \in {workDir \o "/source.c", workDir \o "/source.cpp"}
       /\ \A i \in 1..(Len(command) - 1) : command[i] # sourceFile
       /\ sourceFile \notin UserElements(options)

C7_Witness ==
    /\ tool = "compile"
    /\ command # <<>>
    /\ options.flags = << <<"-DDEBUG=1", "-Isrc">> >>
    /\ options.defines = << <<"NDEBUG", "VERSION=1">> >>
    /\ command[Len(command)] = sourceFile

C9_WorkDirRemoved ==
    (pc = "done" /\ workDir # "") => workDir \notin dirs

\* responses compile gives when the child ends by itself with a non-zero code
NonZeroExitResponses ==
    {successResponse("compile", closeResult(o, <<code>>)) :
        o \in OutputSamples, code \in 1..255}

C11_RejectedRequestChangesNothing ==
    (Entered /\ ~validateInputs(tool, options).success)
    => /\ pc = "done"
       /\ IsValidationError(response)
       /\ response[1].message = validateInputs(tool, options).error
       /\ command = <<>>
       /\ workDir = ""
       /\ sourceFile = ""
       /\ dirs = {tempDir}
       /\ files = {}
       /\ spawns = 0
       /\ proc = "none"
       /\ timer = <<>>
       /\ result = <<>>

C11_Witness ==
    /\ pc = "done"
    /\ tool = "ast"
    /\ options.format = <<"xml">>
    /\ IsValidationError(response)
    /\ dirs = {tempDir}
    /\ spawns = 0

\* the order in which the claims list the fields of a request
FieldOrder(t) ==
    CASE t = "compile" -> <<"sourceCode", "language", "optimization", "warnings",
                            "defines", "includes", "flags", "timeout">>
      [] t = "analyze" -> <<"sourceCode", "language", "checkers", "defines",
                            "includes">>
      [] t = "ast"     -> <<"sourceCode", "language", "format">>

\* the verdict of its validator on a field that is present in the request
fieldCheck(f, v) ==
    CASE f = "sourceCode"   -> validateSourceCode(v)
      [] f = "language"     ->
            IF v = <<>> THEN Passed ELSE validateLanguageStandard(v[1])
      [] f = "optimization" ->
            IF v = <<>> THEN Passed ELSE validateOptimizationLevel(v[1])
      [] f = "warnings"     ->
            IF v = <<>> THEN Passed ELSE validateWarningLevel(v[1])
      [] f = "defines"      -> IF v = <<>> THEN Passed ELSE validateDefines(v[1])
      [] f = "includes"     -> IF v = <<>> THEN Passed ELSE validateIncludes(v[1])
      [] f = "flags"        ->
            IF v = <<>> THEN Passed ELSE validateCompilerFlags(v[1])
      [] f = "timeout"      -> IF v = <<>> THEN Passed ELSE validateTimeout(v[1])
      [] f = "checkers"     -> IF v = <<>> THEN Passed ELSE validateCheckers(v[1])
      [] f = "format"       ->
            IF v = <<>> \/ Contains(validFormats, v[1]) THEN Passed
            ELSE Fail("Invalid AST format. Must be one of: "
                      \o join(validFormats, ", "))

\* positions, in FieldOrder, of the fields of o that their validator rejects
InvalidFields(t, o) ==
    {i \in 1..Len(FieldOrder(t)) :
        ~fieldCheck(FieldOrder(t)[i], o[FieldOrder(t)[i]]).success}

Min(S) == CHOOSE x \in S : \A y \in S : x <= y

\* C12: a request with several invalid fields is answered with the
\* VALIDATION_ERROR of the first of them in the order source, language,
\* tool-specific options, flags, timeout.
C12_FirstInvalidFieldReported ==
    (Entered /\ Cardinality(InvalidFields(tool, options)) >= 2)
    => /\ IsValidationError(response)
       /\ response[1].message
            = fieldCheck(FieldOrder(tool)[Min(InvalidFields(tool, options))],
                         options[FieldOrder(tool)[Min(InvalidFields(tool, options))]]
                        ).error

ValidatorNames ==
    {"validateSourceCode", "validateLanguageStandard",
     "validateOptimizationLevel", "validateWarningLevel", "validateDefines",
     "validateIncludes", "validateCompilerFlags", "validateTimeout",
     "validateCheckers"}

\* C13: every validator returns either success with a sanitized value equal
\* to its argument (element for element for lists) and no error, or failure
\* with one non-empty reason and no sanitized value.
C13_VerbatimOrRejected ==
    (vcall.fn \in ValidatorNames /\ vret # <<>>)
    => \/ /\ vret[1].success
          /\ DOMAIN vret[1] = {"success", "sanitized"}
          /\ vret[1].sanitized = vcall.arg
       \/ /\ ~vret[1].success
          /\ DOMAIN vret[1] = {"success", "error"}
          /\ Len(vret[1].error) > 0

C13_Witness ==
    /\ Returned("validateDefines")
    /\ vcall.arg = <<"VERSION=1", "123INVALID">>
    /\ ~vret[1].success
    /\ DOMAIN vret[1] = {"success", "error"}

\* DockerManager.defaultConfig: the limits of the container the isolation
\* primitive runs the tool in
defaultConfig ==
    [image |-> "llvm-mcp-server:latest", workingDir |-> "/workspace",
     user |-> "compiler", timeout |-> 60000, memoryLimit |-> "512m",
     cpuLimit |-> "2"]

HasOption(argv, name, value) ==
    \E i \in 1..(Len(argv) - 1) : argv[i] = name /\ argv[i + 1] = value

\* an argument vector that launches its tool in the container: no network,
\* read-only file system with the work directory as the only writable
\* mount, the fixed memory and CPU limits
Isolated(argv, dir) ==
    /\ argv[1] = "docker"
    /\ HasOption(argv, "--network", "none")
    /\ HasOption(argv, "--memory", defaultConfig.memoryLimit)
    /\ HasOption(argv, "--cpus", defaultConfig.cpuLimit)
    /\ Contains(argv, "--read-only")
    /\ HasOption(argv, "-v", dir \o ":" \o defaultConfig.workingDir \o ":rw")

\* C15: every process launched for a compile, analyze or AST request is
\* launched inside the isolation primitive (no network, writable area
\* limited to the work directory, fixed CPU and memory limits).
C15_LaunchedInIsolation ==
    spawns > 0 => Isolated(command, workDir)

\* the execution step of a validated request failed: the work environment
\* could not be created, the process could not be launched, or it timed out
ExecutionFailed ==
    /\ pc = "done"
    /\ workDir # ""
    /\ (spawns = 0 \/ killed \/ result[1].exitCode = -1)

\* C18: when the execution step of a validated request fails, the facade
\* answers with a failure response carrying its execution-error code and
\* the elapsed time; analyze and generateAST never answer success = true.
C18_ExecutionFailureReported ==
    ExecutionFailed
    => /\ ~response[1].success
       /\ response[1].kind = "ErrorResponse"
       /\ response[1].code = errorCode(tool)
       /\ response[1].hasExecutionTime

OptimizationElements == {"-O0", "-O1", "-O2", "-O3", "-Os", "-Oz", "-Ofast"}

\* C20: for every optional field absent from a validated request the command
\* carries the default: exactly one optimization element, -O2; the warning
\* group -Wall -Wextra -Wpedantic without -Werror; a -std= element.
C20_DefaultsForAbsentFields ==
    command # <<>>
    => /\ ("optimization" \in FieldsOf(tool) /\ options.optimization = <<>>)
            => /\ Cardinality({i \in 1..Len(command) :
                                  command[i] \in OptimizationElements}) = 1
               /\ Contains(command, "-O2")
       /\ ("warnings" \in FieldsOf(tool) /\ options.warnings = <<>>)
            => /\ Contains(command, "-Wall")
               /\ Contains(command, "-Wextra")
               /\ Contains(command, "-Wpedantic")
               /\ ~Contains(command, "-Werror")
       /\ options.language = <<>>
            => Cardinality({i \in 1..Len(command) :
                               startsWith(command[i], "-std=")}) = 1

\* the requests whose native process is live
Live == {r \in RequestIds : reqs[r].pc = "running"}

\* C14: the number of native-tool executions live at the same time stays
\* under a fixed maximum: of MaxRequests requests submitted together at
\* least one is held back (queued or rejected) while the others run.
C14_ConcurrencyCeiling ==
    Cardinality(Live) < MaxRequests

\* the requests that own a work directory on disk: from the success of
\* fs.mkdir to the completion of fs.rm
Owning == {r \in RequestIds : reqs[r].pc \in {"writeFile", "running", "rm"}}

\* C16: two requests never get the same work directory, and while a request
\* executes its work directory and its source file exist, whatever the
\* cleanups of the other requests removed.
C16_WorkDirsDisjoint ==
    /\ \A r1, r2 \in RequestIds :
          (r1 # r2 /\ reqs[r1].workDir # "" /\ reqs[r2].workDir # "")
          => /\ reqs[r1].workDir # reqs[r2].workDir
             /\ ~startsWith(reqs[r1].workDir, reqs[r2].workDir \o "/")
    /\ \A r \in Owning : reqs[r].workDir \in dirs
    /\ \A r \in RequestIds :
          reqs[r].pc \in {"running", "rm"} => reqs[r].sourceFile \in files

C16_Witness ==
    \E r1, r2 \in RequestIds :
        /\ reqs[r1].pc = "done"
        /\ reqs[r1].sourceFile # ""
        /\ reqs[r1].workDir \notin dirs
        /\ reqs[r2].pc = "running"
        /\ reqs[r2].sourceFile \in files

Range(seq) == {seq[i] : i \in 1..Len(seq)}

\* the text fields of a facade's response that are taken from tool output
ToolTexts(resp) ==
    CASE resp.kind = "CompilationResponse" ->
            {resp.stdout, resp.stderr}
            \cup {d.message : d \in Range(resp.diagnostics.errors)
                                   \cup Range(resp.diagnostics.warnings)
                                   \cup Range(resp.diagnostics.notes)}
            \cup ({resp.clangVersion} \ {"clang (version unknown)"})
      [] resp.kind = "StaticAnalysisResponse" ->
            {a.message : a \in Range(resp.analysisResults)}
            \cup ({a.checker : a \in Range(resp.analysisResults)} \ {"unknown"})
      [] resp.kind = "ASTResponse" -> {resp.ast}

\* C17: in each facade the text captured from the tool is sanitized before
\* it is parsed, and every text field of the response that is derived from
\* tool output (stdout, stderr, diagnostic message, checker identifier, AST
\* text, version string) has passed through the sanitizer: it is a text the
\* sanitizer returned, or a part of such a text that a parser picked.
C17_SanitizedBeforeParsed ==
    \A fn \in {"compile", "analyze", "generateAST"} :
        Returned(fn) =>
            /\ vret[1].parsed \subseteq vret[1].sanitized
            /\ \A text \in ToolTexts(vret[1].response) :
                  \/ text \in vret[1].sanitized
                  \/ \E p \in vret[1].parsed \cap vret[1].sanitized :
                        includes(p, text)

\* C19: when the raw tool output contains an absolute path under the work
\* directory of the request, the text sanitizeStdout, sanitizeStderr and
\* sanitizeAST return does not contain that path.
C19_NoWorkPathInSanitizedText ==
    \A fn \in {"sanitizeStdout", "sanitizeStderr", "sanitizeAST"} :
        Returned(fn) =>
            \A p \in PathsUnderWorkDir :
                includes(vcall.arg, p) => ~includes(vret[1], p)

\* the elements of a command that enable an analyzer checker
CheckerElements(cmd) ==
    {cmd[i] : i \in {j \in 1..Len(cmd) : startsWith(cmd[j], "-analyzer-checker=")}}

\* the analyze request o with its checkers cut before position i
CheckersBefore(o, i) == [o EXCEPT !.checkers = <<SubSeq(o.checkers[1], 1, i - 1)>>]

\* C21: every "-analyzer-checker=<id>" element of the command built for an
\* analyze request names a member of the checker catalog, with the caller's
\* list and with the default set, and a built command enables at least one
\* checker; a request naming an identifier outside the catalog gets no
\* command and, when everything validated before that identifier is valid,
\* a VALIDATION_ERROR whose message names it.
C21_CheckersFromCatalog ==
    (Entered /\ tool = "analyze")
    => /\ \A e \in CheckerElements(command) :
            substring(e, Len("-analyzer-checker=")) \in Range(validCheckers)
       /\ command # <<>> => CheckerElements(command) # {}
       /\ options.checkers # <<>>
            => \A i \in 1..Len(options.checkers[1]) :
                  options.checkers[1][i] \notin Range(validCheckers)
                  => /\ command = <<>>
                     /\ pc = "done"
                     /\ IsValidationError(response)
                     /\ StaticAnalysisTool_validateInputs(
                            CheckersBefore(options, i)).success
                          => startsWith(response[1].message,
                                 "Invalid checker: " \o options.checkers[1][i]
                                 \o ". Must be one of: ")

\* a command with the caller's two checkers has been built
C21_Witness ==
    /\ tool = "analyze"
    /\ options.checkers = << <<"core.DivideZero", "unix.Malloc">> >>
    /\ CheckerElements(command) = {"-analyzer-checker=core.DivideZero",
                                   "-analyzer-checker=unix.Malloc"}

\* the timeout a request asks for: its own for a compile request that
\* carries one, else 30 s (compile), 60 s (analyze), 30 s (AST)
RequestedTimeout(t, o) ==
    CASE t = "compile" -> IF o.timeout # <<>> THEN o.timeout[1] ELSE 30
      [] t = "analyze" -> 60
      [] t = "ast"     -> 30

\* C22: while a launched process runs, the timer armed for it is set to the
\* timeout of the compile request when the request carries one, else to 30 s
\* for compile, 60 s for analyze and 30 s for AST, and the armed value lies
\* in 1..60 seconds.
C22_ArmedTimeout ==
    (pc = "running" /\ proc = "running")
    => /\ timer # <<>>
       /\ timer[1] = RequestedTimeout(tool, options)
       /\ timer[1] \in 1..60

(***************************************************************************)
(* The parsers called on their own                                         *)
(***************************************************************************)
MaxLines == 2

\* lines a compiler or analyzer writes to stderr, whole and garbled
LineSamples ==
    {"a.c:1:2: error: x",
     "a.c:12: warning: unused y",
     "b.h:3:4: note: z [core.DivideZero]",
     "a:1:2:3:4: error: m",
     "a.c:7:8:error:w",
     "a.c:5:6: warning: ",
     "a.c:1:2: fatal error: f",
     "a.c:x:2: error: q",
     "1 error generated.",
     "  ^~~ ",
     ""}

\* the texts of one to MaxLines lines
RECURSIVE TextsOf(_)
TextsOf(n) ==
    IF n = 1 THEN LineSamples
    ELSE TextsOf(n - 1)
         \cup {t \o "\n" \o l : t \in TextsOf(n - 1), l \in LineSamples}

StderrTexts == TextsOf(MaxLines)

ParserCalls == {Call("parseDiagnostics", t) : t \in StderrTexts}

\* lines the analyzer writes: with a checker, without one, not a diagnostic
AnalyzerLineSamples ==
    {"a.c:9:3: warning: Division by zero [core.DivideZero]",
     "  a.c:2:7: note: 'p' initialized to a null pointer value",
     "a.c:4:1: error: unknown type name 'x'\r",
     "a.c:12: warning: no column",
     "1 warning generated."}

RECURSIVE AnalyzerTextsOf(_)
AnalyzerTextsOf(n) ==
    IF n = 1 THEN AnalyzerLineSamples
    ELSE AnalyzerTextsOf(n - 1)
         \cup {t \o "\n" \o l : t \in AnalyzerTextsOf(n - 1),
                                 l \in AnalyzerLineSamples}

AnalyzerCalls ==
    {Call("parseAnalysisResults", [stdout |-> a, stderr |-> e]) :
        a \in {"", "a.c:1:1: warning: w [unix.API]"},
        e \in AnalyzerTextsOf(MaxLines)}

\* the ceiling the harness runs sanitizeAST with, in place of the 10 MiB of
\* MAX_OUTPUT_SIZE, so that texts on both sides of it can be written out
ScaledCeiling == 64

\* AST texts shorter than, as long as and longer than ScaledCeiling
ASTTexts ==
    {"",
     "|-VarDecl 0x7f3a10 <line:3 col:5> x 'int'",
     "`-StringLiteral 0x55d1c8a3b2c0 <col:9> 'const char [4]' \"0x1\"",
     "0x1 0x2 0x3 0x4 0x5 0x6 0x7 0x8 0x9 0xa 0xb 0xc 0xd 0xe 0xf 0x10",
     "TranslationUnitDecl 0x55d1c8 <<invalid sloc>> <invalid sloc>\n|-TypedefDecl 0x55d1f0 implicit __int128_t",
     "line:1 col:2 line:3 col:4 line:5 col:6 line:7 col:8 line:9 col:1 line:2 col:3"}

LimitCalls ==
    {Call("limitOutputSize", [output |-> t, maxSize |-> n]) :
        t \in ASTTexts, n \in {0, 40, 41, 42, ScaledCeiling, 10 * 1024 * 1024}}
    \cup {Call("sanitizeASTWithin", [output |-> t, maxSize |-> ScaledCeiling]) :
            t \in ASTTexts}

InitP ==
    /\ (vcall \in ParserCalls \/ vcall \in AnalyzerCalls \/ vcall \in LimitCalls)
    /\ vret = <<>>
    /\ pc = "idle"
    /\ tool = "none"
    /\ options = minimalOptions
    /\ workDir = ""
    /\ sourceFile = ""
    /\ dirs = {tempDir}
    /\ files = {}
    /\ command = <<>>
    /\ proc = "none"
    /\ killed = FALSE
    /\ timer = <<>>
    /\ spawns = 0
    /\ out = NoOutput
    /\ result = <<>>
    /\ response = <<>>
    /\ reqs = [r \in RequestIds |-> NoRequest]

CallParseDiagnostics ==
    vcall.fn = "parseDiagnostics"
    /\ Returns("parseDiagnostics", parseDiagnostics(vcall.arg))

CallParseAnalysisResults ==
    vcall.fn = "parseAnalysisResults"
    /\ Returns("parseAnalysisResults",
               parseAnalysisResults(vcall.arg.stdout, vcall.arg.stderr))

CallLimitOutputSize ==
    vcall.fn = "limitOutputSize"
    /\ Returns("limitOutputSize",
               limitOutputSize(vcall.arg.output, vcall.arg.maxSize))

\* sanitizeAST with MAX_OUTPUT_SIZE scaled down to vcall.arg.maxSize
CallSanitizeASTWithin ==
    vcall.fn = "sanitizeASTWithin"
    /\ Returns("sanitizeASTWithin",
               sanitizeASTWithin(vcall.arg.output, vcall.arg.maxSize))

NextP ==
    \/ CallParseDiagnostics
    \/ CallParseAnalysisResults
    \/ CallLimitOutputSize
    \/ CallSanitizeASTWithin

SpecP == InitP /\ [][NextP]_vars

\* a text of one or more decimal digits
IsNumber(s) == Len(s) > 0 /\ \A i \in 1..Len(s) : CharAt(s, i) \in Digit

\* a text without line terminators
OnOneLine(s) == \A i \in 1..Len(s) : CharAt(s, i) \notin {"\n", "\r"}

\* the colon that follows the number starting at position from, 0 if none
NumberEnd(l, from) ==
    IF \E c \in (from + 1)..Len(l) :
            CharAt(l, c) = ":" /\ IsNumber(SubSeq(l, from, c - 1))
    THEN CHOOSE c \in (from + 1)..Len(l) :
            CharAt(l, c) = ":" /\ IsNumber(SubSeq(l, from, c - 1))
    ELSE 0

\* the position after the blanks that start at position from
AfterBlanks(l, from) ==
    CHOOSE d \in from..(Len(l) + 1) :
        /\ \A i \in from..(d - 1) : CharAt(l, i) \in Space
        /\ d = Len(l) + 1 \/ CharAt(l, d) \notin Space

\* "severity: message" read from position from on: the severity, a colon,
\* blanks and a message of at least one character
TailReadings(l, from) ==
    {[severity |-> s, message |-> trim(substring(l, from + Len(s)))] :
        s \in {s \in {"error", "warning", "note"} :
                 /\ from + Len(s) < Len(l)
                 /\ SubSeq(l, from, from + Len(s)) = s \o ":"
                 /\ \E p \in (from + Len(s) + 1)..Len(l) :
                        /\ \A j \in (from + Len(s) + 1)..(p - 1) :
                                CharAt(l, j) \in Space
                        /\ OnOneLine(SubSeq(l, p, Len(l)))}}

\* the readings of l as location:line:column: severity: message whose
\* location ends before the colon at position a
FullReadings(l, a) ==
    IF CharAt(l, a) # ":" \/ a = 1 \/ ~OnOneLine(SubSeq(l, 1, a - 1))
          \/ NumberEnd(l, a + 1) = 0
          \/ NumberEnd(l, NumberEnd(l, a + 1) + 1) = 0
    THEN {}
    ELSE {[at |-> a,
           line |-> parseInt(SubSeq(l, a + 1, NumberEnd(l, a + 1) - 1)),
           column |-> parseInt(SubSeq(l, NumberEnd(l, a + 1) + 1,
                                      NumberEnd(l, NumberEnd(l, a + 1) + 1) - 1)),
           message |-> t.message, severity |-> t.severity] :
            t \in TailReadings(l, AfterBlanks(l,
                        NumberEnd(l, NumberEnd(l, a + 1) + 1) + 1))}

\* the readings of l as location:line: severity: message
ShortReadings(l, a) ==
    IF CharAt(l, a) # ":" \/ a = 1 \/ ~OnOneLine(SubSeq(l, 1, a - 1))
          \/ NumberEnd(l, a + 1) = 0
    THEN {}
    ELSE {[at |-> a,
           line |-> parseInt(SubSeq(l, a + 1, NumberEnd(l, a + 1) - 1)),
           column |-> 0,
           message |-> t.message, severity |-> t.severity] :
            t \in TailReadings(l, AfterBlanks(l, NumberEnd(l, a + 1) + 1))}

\* the reading with the shortest location
shortest(readings) == CHOOSE r \in readings : \A q \in readings : r.at <= q.at

Diagnostic(r) ==
    [line |-> r.line, column |-> r.column, message |-> r.message,
     severity |-> r.severity]

\* the record a line stands for: of the first shape if it has it, else of
\* the fallback shape, else none
readingOf(full, short) ==
    IF full # {} THEN <<Diagnostic(shortest(full))>>
    ELSE IF short # {} THEN <<Diagnostic(shortest(short))>>
    ELSE <<>>

Reading(l) ==
    readingOf(UNION {FullReadings(l, a) : a \in 1..Len(l)},
              UNION {ShortReadings(l, a) : a \in 1..Len(l)})

\* the records the lines from the k-th on stand for, in their order
RECURSIVE Readings(_, _)
Readings(lines, k) ==
    IF k > Len(lines) THEN <<>>
    ELSE Reading(lines[k]) \o Readings(lines, k + 1)

\* C23: parseDiagnostics returns, for the stderr text it is given, one
\* record for each line of the shape location:line:column: severity: message
\* (with that line and column) or of the fallback shape
\* location:line: severity: message (with column 0) and none for any other
\* line; every text, garbled lines included, gets a result.
C23_OneRecordPerDiagnosticLine ==
    Returned("parseDiagnostics")
    => \A s \in {"error", "warning", "note"} :
          vret[1][s \o "s"]
            = SelectSeq(Readings(split(vcall.arg), 1), LAMBDA d : d.severity = s)

\* a line cut short is dropped, a line of the fallback shape and a line of
\* the first shape give one record each
C23_Witness ==
    /\ Returned("parseDiagnostics")
    /\ vcall.arg = "a.c:7:8:error:w\na.c:12: warning: unused y"
    /\ vret[1].errors = <<[line |-> 7, column |-> 8, message |-> "w",
                           severity |-> "error"]>>
    /\ vret[1].warnings = <<[line |-> 12, column |-> 0,
                             message |-> "unused y", severity |-> "warning"]>>
    /\ parseDiagnostics("a.c:1:2: fatal error: f\n  ^~~ ").errors = <<>>

\* where a diagnostic points and how severe it is
Position(d) == <<d.line, d.column, d.severity>>

Positions(records) == [n \in 1..Len(records) |-> Position(records[n])]

\* the record an analyzer line stands for: the first shape only
analyzerReadingOf(full) ==
    IF full # {} THEN <<Diagnostic(shortest(full))>> ELSE <<>>

AnalyzerReading(l) ==
    analyzerReadingOf(UNION {FullReadings(l, a) : a \in 1..Len(l)})

RECURSIVE AnalyzerReadings(_, _)
AnalyzerReadings(lines, k) ==
    IF k > Len(lines) THEN <<>>
    ELSE AnalyzerReading(trim(lines[k])) \o AnalyzerReadings(lines, k + 1)

\* the diagnostics of a compile response in the order the response holds them
DiagnosticsReturned(diagnostics) ==
    diagnostics.errors \o diagnostics.warnings \o diagnostics.notes

\* C24: the records returned keep the order in which the tool wrote the
\* lines: the diagnostics parseDiagnostics returns, and the analysisResults
\* parseAnalysisResults returns, list the record of an earlier diagnostic
\* line before the record of a later one.
C24_EmissionOrderKept ==
    /\ Returned("parseDiagnostics")
         => Positions(DiagnosticsReturned(vret[1]))
              = Positions(Readings(split(vcall.arg), 1))
    /\ Returned("parseAnalysisResults")
         => Positions(vret[1])
              = Positions(AnalyzerReadings(split(vcall.arg.stderr), 1)
                          \o AnalyzerReadings(split(vcall.arg.stdout), 1))

\* C25: limitOutputSize(output, maxSize) returns output itself when its
\* length is at most maxSize and otherwise a text of length at most maxSize
\* that ends in the truncation marker, and the text sanitizeAST returns is
\* never longer than the ceiling it limits its text to.
C25_CeilingEnforcedLast ==
    /\ Returned("limitOutputSize")
         => IF Len(vcall.arg.output) <= vcall.arg.maxSize
            THEN vret[1] = vcall.arg.output
            ELSE /\ Len(vret[1]) <= vcall.arg.maxSize
                 /\ endsWith(vret[1], "\n... (output truncated due to size limit)")
    /\ Returned("sanitizeASTWithin")
         => Len(vret[1]) <= vcall.arg.maxSize

\* the promise of executeClang is settled
Settled == result # <<>>

\* a step in which the child's 'close' event, the timer or the child's
\* 'error' event is handled
EventHandled == proc # "none" /\ proc' # proc

C27_SuccessIffExitCodeZero ==
    Settled => (result[1].success <=> result[1].exitCode = 0)

\* options of clang that, written without a value of their own, take the
\* next element of the command as their value
TakesNextElement ==
    {"-D", "-I", "-L", "-l", "-o", "-x", "-include", "-isystem", "-mllvm",
     "-framework", "-Xclang", "-Xanalyzer", "-Xlinker", "-MF", "-MT"}

\* C28: in the command built for a validated request every element that
\* comes from a request field (defines, includes, flags, language,
\* optimization, checkers) starts with "-" and is an option complete in
\* itself, so that no element of the command is taken as its value.
C28_UserOptionsSelfContained ==
    \A i \in 1..Len(command) :
        command[i] \in UserElements(options)
        => /\ startsWith(command[i], "-")
           /\ command[i] \notin TakesNextElement

\* a message with nothing in it that a sanitizer rule is meant for: no path
\* separator and no number
Plain(message) ==
    \A i \in 1..Len(message) : CharAt(message, i) \notin Digit \cup {"/", "\\"}

ofSeverity(records, s) == SelectSeq(records, LAMBDA d : d.severity = s)

\* the k-th records of two lists carry the same message when the first one
\* is plain
SameMessages(raw, returned) ==
    \A k \in 1..Len(raw) :
        Plain(raw[k].message) => returned[k].message = raw[k].message

\* C29: the compile response holds as many diagnostics as the raw stderr of
\* the result has lines of a diagnostic shape, and a diagnostic whose raw
\* message holds nothing to be replaced carries that message unchanged: no
\* record is added or dropped and no text of other lines enters a message.
C29_SanitizingKeepsDiagnostics ==
    Returned("compile")
    => /\ Len(DiagnosticsReturned(vret[1].response.diagnostics))
            = Len(Readings(split(vcall.arg.stderr), 1))
       /\ \A s \in {"error", "warning", "note"} :
            /\ Len(vret[1].response.diagnostics[s \o "s"])
                 = Len(ofSeverity(Readings(split(vcall.arg.stderr), 1), s))
            /\ SameMessages(ofSeverity(Readings(split(vcall.arg.stderr), 1), s),
                            vret[1].response.diagnostics[s \o "s"])

(***************************************************************************)
(* DockerManager.executeInContainer.  vcall holds the DockerOptions of the  *)
(* call and vret the CompilationResult returned; tool holds containerId,    *)
(* workDir the temporary directory, command the argument vector of the      *)
(* docker process, result the settlement of runDockerCommand's promise and  *)
(* response the value the try or the catch block returns.                   *)
(***************************************************************************)
\* process.cwd()
cwd == "/app"

DockerCommands ==
    {<<"clang++", "-o", "test", "main.cpp">>,
     <<"clang", "--analyze", "main.cpp">>,
     <<"sh", "-c", "--network host">>}

\* options.timeout in milliseconds: absent, 0, five seconds
DockerTimeouts == {<<>>, <<0>>, <<5000>>}

DockerCalls ==
    {Call("executeInContainer",
          [sourceCode |-> Text(21), command |-> c, timeout |-> t]) :
        c \in DockerCommands, t \in DockerTimeouts}

InitD ==
    /\ vcall \in DockerCalls
    /\ vret = <<>>
    /\ pc = "idle"
    /\ tool = "none"
    /\ options = minimalOptions
    /\ workDir = ""
    /\ sourceFile = ""
    /\ dirs = {cwd}
    /\ files = {}
    /\ command = <<>>
    /\ proc = "none"
    /\ killed = FALSE
    /\ timer = <<>>
    /\ spawns = 0
    /\ out = NoOutput
    /\ result = <<>>
    /\ response = <<>>
    /\ reqs = [r \in RequestIds |-> NoRequest]

dockerArgs_sharedNetwork(dir, containerId, cmd) ==
    <<"run", "--rm", "--name", containerId, "--user", defaultConfig.user,
      "--workdir", defaultConfig.workingDir,
      "--memory", defaultConfig.memoryLimit, "--cpus", defaultConfig.cpuLimit,
      "--read-only", "--tmpfs", "/tmp:noexec,nosuid,size=100m",
      "--security-opt", "no-new-privileges:true", "--cap-drop", "ALL",
      "-v", dir \o ":" \o defaultConfig.workingDir \o ":rw",
      defaultConfig.image>>
    \o cmd

\* const dockerArgs = [...]
dockerArgs(dir, containerId, cmd) ==
    <<"run", "--rm", "--name", containerId, "--user", defaultConfig.user,
      "--workdir", defaultConfig.workingDir,
      "--memory", defaultConfig.memoryLimit, "--cpus", defaultConfig.cpuLimit,
      "--network", "none", "--read-only",
      "--tmpfs", "/tmp:noexec,nosuid,size=100m",
      "--security-opt", "no-new-privileges:true", "--cap-drop", "ALL",
      "-v", dir \o ":" \o defaultConfig.workingDir \o ":rw",
      defaultConfig.image>>
    \o cmd

\* options.timeout || this.defaultConfig.timeout
dockerTimeout(o) == IF TruthyNum(o.timeout) THEN o.timeout[1] ELSE defaultConfig.timeout

\* the value the catch block of executeInContainer returns
caughtResult(message, containerId) ==
    [success |-> FALSE, exitCode |-> -1, stdout |-> "", stderr |-> message,
     containerId |-> containerId]

\* the value the try block returns: {...result, containerId, executionTime}
containerResult(r, containerId) ==
    [success |-> r.success, exitCode |-> r.exitCode, stdout |-> r.stdout,
     stderr |-> r.stderr, containerId |-> containerId]

\* the value the 'close' handler of runDockerCommand resolves
dockerCloseResult(o, code) ==
    [success |-> (code = <<0>>),
     exitCode |-> IF code # <<>> /\ code[1] # 0 THEN code[1] ELSE 0,
     stdout |-> trim(o.stdout), stderr |-> trim(o.stderr)]

fulfilled(r) == [state |-> "fulfilled", value |-> r]

rejected(message) == [state |-> "rejected", message |-> message]

\* executeInContainer up to the first await: containerId is drawn, then
\* createTempDirectory draws the directory and calls fs.mkdir
executeInContainer ==
    /\ pc = "idle"
    /\ vcall.fn = "executeInContainer"
    /\ \E c \in UUIDs : tool' = "mcp-compilation-" \o c
    /\ \E u \in UUIDs : workDir' = path_join(path_join(cwd, "tmp"), u)
    /\ pc' = "mkdir"
    /\ UNCHANGED <<reqs, vcall, vret, options, sourceFile, dirs, files, command,
                   proc, killed, timer, spawns, out, result, response>>

\* fs.mkdir(tempDir, {recursive: true}) succeeded; the try block is entered
createTempDirectory ==
    /\ pc = "mkdir"
    /\ vcall.fn = "executeInContainer"
    /\ dirs' = dirs \cup {path_join(cwd, "tmp"), workDir}
    /\ sourceFile' = path_join(workDir, "main.cpp")
    /\ pc' = "writeFile"
    /\ UNCHANGED <<reqs, vcall, vret, tool, options, workDir, files, command,
                   proc, killed, timer, spawns, out, result, response>>

\* fs.mkdir rejected: executeInContainer rejects, outside its try block
createTempDirectoryFails ==
    /\ pc = "mkdir"
    /\ vcall.fn = "executeInContainer"
    /\ workDir' = ""
    /\ pc' = "thrown"
    /\ UNCHANGED <<reqs, vcall, vret, tool, options, sourceFile, dirs, files,
                   command, proc, killed, timer, spawns, out, result, response>>

\* fs.writeFile succeeded; dockerArgs is built and runDockerCommand spawns
\* docker and arms its timer
runDockerCommand ==
    /\ pc = "writeFile"
    /\ vcall.fn = "executeInContainer"
    /\ files' = files \cup {sourceFile}
    /\ command' = <<"docker">> \o dockerArgs(workDir, tool, vcall.arg.command)
    /\ proc' = "running"
    /\ timer' = <<dockerTimeout(vcall.arg)>>
    /\ spawns' = spawns + 1
    /\ pc' = "running"
    /\ UNCHANGED <<reqs, vcall, vret, tool, options, workDir, sourceFile, dirs,
                   killed, out, result, response>>

\* fs.writeFile rejected: the catch block builds the result
SourceWriteFails ==
    /\ pc = "writeFile"
    /\ vcall.fn = "executeInContainer"
    /\ response' = <<caughtResult("ENOSPC: no space left on device, write", tool)>>
    /\ pc' = "cleanup"
    /\ UNCHANGED <<reqs, vcall, vret, tool, options, workDir, sourceFile, dirs,
                   files, command, proc, killed, timer, spawns, out, result>>

\* 'data' handlers of docker.stdout and docker.stderr
DockerData ==
    /\ pc = "running"
    /\ vcall.fn = "executeInContainer"
    /\ proc = "running"
    /\ out = NoOutput
    /\ \E o \in OutputSamples \ {NoOutput} : out' = o
    /\ UNCHANGED <<reqs, vcall, vret, pc, tool, options, workDir, sourceFile, dirs,
                   files, command, proc, killed, timer, spawns, result,
                   response>>

\* 'close' handler while the promise is pending: clearTimeout, resolve; the
\* try block returns
DockerClose ==
    /\ pc = "running"
    /\ vcall.fn = "executeInContainer"
    /\ proc = "running"
    /\ \E code \in ExitCodes :
          /\ result' = <<fulfilled(dockerCloseResult(out, code))>>
          /\ response' = <<containerResult(dockerCloseResult(out, code), tool)>>
    /\ timer' = <<>>
    /\ proc' = "closed"
    /\ pc' = "cleanup"
    /\ UNCHANGED <<reqs, vcall, vret, tool, options, workDir, sourceFile, dirs,
                   files, command, killed, spawns, out>>

\* the timer fires: docker.kill('SIGKILL'), reject; the catch block builds
\* the result
DockerTimeout ==
    /\ pc = "running"
    /\ vcall.fn = "executeInContainer"
    /\ proc = "running"
    /\ timer # <<>>
    /\ result' = <<rejected("Docker command timed out after "
                            \o ToString(timer[1]) \o "ms")>>
    /\ response' = <<caughtResult(result'[1].message, tool)>>
    /\ timer' = <<>>
    /\ killed' = TRUE
    /\ proc' = "killed"
    /\ pc' = "cleanup"
    /\ UNCHANGED <<reqs, vcall, vret, tool, options, workDir, sourceFile, dirs,
                   files, command, spawns, out>>

\* 'error' handler (docker could not be spawned): clearTimeout, reject; the
\* catch block builds the result
DockerError ==
    /\ pc = "running"
    /\ vcall.fn = "executeInContainer"
    /\ proc = "running"
    /\ out = NoOutput
    /\ result' = <<rejected("spawn docker ENOENT")>>
    /\ response' = <<caughtResult("spawn docker ENOENT", tool)>>
    /\ timer' = <<>>
    /\ proc' = "failed"
    /\ pc' = "cleanup"
    /\ UNCHANGED <<reqs, vcall, vret, tool, options, workDir, sourceFile, dirs,
                   files, command, killed, spawns, out>>

\* 'close' of a docker process that was killed or could not be spawned: the
\* promise is settled already and resolve is ignored
DockerLateClose ==
    /\ vcall.fn = "executeInContainer"
    /\ proc \in {"killed", "failed"}
    /\ proc' = "closed"
    /\ UNCHANGED <<reqs, vcall, vret, pc, tool, options, workDir, sourceFile, dirs,
                   files, command, killed, timer, spawns, out, result, response>>

\* the finally block: cleanup(tempDir) calls fs.rm and swallows its error;
\* then executeInContainer returns
cleanup ==
    /\ pc = "cleanup"
    /\ vcall.fn = "executeInContainer"
    /\ dirs' = rmDirs(dirs, workDir)
    /\ files' = rmFiles(files, workDir)
    /\ vret' = response
    /\ pc' = "done"
    /\ UNCHANGED <<reqs, vcall, tool, options, workDir, sourceFile, command,
                   proc, killed, timer, spawns, out, result, response>>

NextD ==
    \/ executeInContainer
    \/ createTempDirectory
    \/ createTempDirectoryFails
    \/ runDockerCommand
    \/ SourceWriteFails
    \/ DockerData
    \/ DockerClose
    \/ DockerTimeout
    \/ DockerError
    \/ DockerLateClose
    \/ cleanup

SpecD == InitD /\ [][NextD]_vars

\* the index of the image name in the argument vector of docker
ImageAt(argv) == Len(argv) - Len(vcall.arg.command)

\* name value stands in argv ahead of the image name
OptionAhead(argv, name, value) ==
    \E i \in 1..(ImageAt(argv) - 2) : argv[i] = name /\ argv[i + 1] = value

====
